---------------------------- MODULE Spec2Model ----------------------------
(***************************************************************************)
(* A model of nginx_generator: the block renderers, the http-section       *)
(* splicer (addServerBlock), the previewer (GeneratePreview), the run on    *)
(* the file system (AddServerToNginx), the loader of the configuration file *)
(* (config.Load) and the command with its confirmation prompt (main).       *)
(*                                                                         *)
(* Go strings are TLA+ strings; Len, \o and SubSeq act on them character   *)
(* by character.  Positions are 1-based: Go's s[a:b] is SubSeq(s, a+1, b). *)
(* The texts are over the characters U+0001 to U+00FF: the tables of the    *)
(* package unicode are given for these characters.                          *)
(***************************************************************************)
EXTENDS Integers, Sequences, FiniteSets, TLC

(***************************************************************************)
(* Bounds of the model.                                                     *)
(***************************************************************************)
\* longest token sequence a generated document is made of
MaxSegs == 3
\* most lines put before the http section of a generated document
MaxPreLines == 4
\* most lines put after the http section of a generated document
MaxPostLines == 3
\* most applications of addServerBlock to one document
MaxApply == 2
\* most runs of AddServerToNginx on the file system
MaxRuns == 2
\* most seconds that pass during the runs
MaxTicks == 1
\* most runs of the command, main
MaxMainRuns == 2

(***************************************************************************)
(* Characters and small helpers.                                            *)
(***************************************************************************)
At(s, i) == IF i >= 1 /\ i <= Len(s) THEN SubSeq(s, i, i) ELSE ""

\* the text of s at positions a..b, cut at the end of s
Slice(s, a, b) == SubSeq(s, a, IF b > Len(s) THEN Len(s) ELSE b)

MinOf(S) == CHOOSE x \in S : \A y \in S : x <= y

\* the positions of the set P in increasing order
RECURSIVE SortedSeq(_)
SortedSeq(P) ==
    IF P = {} THEN <<>>
    ELSE LET m == MinOf(P) IN <<m>> \o SortedSeq(P \ {m})

\* the character "`", which a TLA+ string holds only before a "'"
BackTick == SubSeq("`'", 1, 1)

\* the characters U+0001 to U+00FF, each at the position of its code point
Latin1 ==
    "\t\n\f\r"
    \o " !\"#$%&'()*+,-./0123456789:;<=>?"
    \o "@ABCDEFGHIJKLMNOPQRSTUVWXYZ[\\]^_"
    \o BackTick
    \o "abcdefghijklmnopqrstuvwxyz{|}~"
    \o ""
    \o " ¡¢£¤¥¦§¨©ª«¬­®¯°±²³´µ¶·¸¹º»¼½¾¿"
    \o "ÀÁÂÃÄÅÆÇÈÉÊËÌÍÎÏÐÑÒÓÔÕÖ×ØÙÚÛÜÝÞß"
    \o "àáâãäåæçèéêëìíîïðñòóôõö÷øùúûüýþÿ"

\* the code point of the character c
CodePoint(c) == CHOOSE k \in 1..Len(Latin1) : SubSeq(Latin1, k, k) = c

\* the vertical tab, the next line and the no-break space
VT == SubSeq(Latin1, 11, 11)

NEL == SubSeq(Latin1, 133, 133)

NBSP == SubSeq(Latin1, 160, 160)

\* regexp/syntax: the Perl class \s is [\t\n\f\r ]
RegexSpace == {" ", "\t", "\n", "\f", "\r"}

\* unicode.IsSpace: "\t", "\n", "\v", "\f", "\r", " ", U+0085 and U+00A0
UnicodeSpace == {" ", "\t", "\n", VT, "\f", "\r", NEL, NBSP}

\* unicode.IsLetter
Letters ==
    {"a", "b", "c", "d", "e", "f", "g", "h", "i", "j", "k", "l", "m",
     "n", "o", "p", "q", "r", "s", "t", "u", "v", "w", "x", "y", "z",
     "A", "B", "C", "D", "E", "F", "G", "H", "I", "J", "K", "L", "M",
     "N", "O", "P", "Q", "R", "S", "T", "U", "V", "W", "X", "Y", "Z",
     "ª", "µ", "º", "À", "Á", "Â", "Ã", "Ä", "Å", "Æ", "Ç", "È", "É",
     "Ê", "Ë", "Ì", "Í", "Î", "Ï", "Ð", "Ñ", "Ò", "Ó", "Ô", "Õ", "Ö",
     "Ø", "Ù", "Ú", "Û", "Ü", "Ý", "Þ", "ß", "à", "á", "â", "ã", "ä",
     "å", "æ", "ç", "è", "é", "ê", "ë", "ì", "í", "î", "ï", "ð", "ñ",
     "ò", "ó", "ô", "õ", "ö", "ø", "ù", "ú", "û", "ü", "ý", "þ", "ÿ"}

\* unicode.IsDigit
Digits == {"0", "1", "2", "3", "4", "5", "6", "7", "8", "9"}

DigitVal(c) ==
    CASE c = "0" -> 0 [] c = "1" -> 1 [] c = "2" -> 2 [] c = "3" -> 3
      [] c = "4" -> 4 [] c = "5" -> 5 [] c = "6" -> 6 [] c = "7" -> 7
      [] c = "8" -> 8 [] c = "9" -> 9

(***************************************************************************)
(* package strings                                                          *)
(***************************************************************************)
\* strings.TrimRight(s, cutset): drop the trailing characters of cutset
RECURSIVE TrimRight(_, _)
TrimRight(s, cutset) ==
    IF Len(s) > 0 /\ At(s, Len(s)) \in cutset
    THEN TrimRight(SubSeq(s, 1, Len(s) - 1), cutset)
    ELSE s

RECURSIVE TrimLeft(_, _)
TrimLeft(s, cutset) ==
    IF Len(s) > 0 /\ At(s, 1) \in cutset
    THEN TrimLeft(SubSeq(s, 2, Len(s)), cutset)
    ELSE s

\* strings.TrimSpace(s)
TrimSpace(s) == TrimLeft(TrimRight(s, UnicodeSpace), UnicodeSpace)

\* the upper-case letters and, at the same positions, their lower case
Uppers == "ABCDEFGHIJKLMNOPQRSTUVWXYZÀÁÂÃÄÅÆÇÈÉÊËÌÍÎÏÐÑÒÓÔÕÖØÙÚÛÜÝÞ"

Lowers == "abcdefghijklmnopqrstuvwxyzàáâãäåæçèéêëìíîïðñòóôõöøùúûüýþ"

\* unicode.ToLower
LowerChar(c) ==
    IF \E i \in 1..Len(Uppers) : At(Uppers, i) = c
    THEN At(Lowers, CHOOSE i \in 1..Len(Uppers) : At(Uppers, i) = c)
    ELSE c

\* strings.ToLower(s)
RECURSIVE ToLower(_)
ToLower(s) ==
    IF s = "" THEN ""
    ELSE LowerChar(At(s, 1)) \o ToLower(SubSeq(s, 2, Len(s)))

\* the start positions of sep in s, at or after from
Occurrences(s, sep, from) ==
    {k \in from..(Len(s) - Len(sep) + 1) :
        /\ At(s, k) = At(sep, 1)
        /\ At(s, k + Len(sep) - 1) = At(sep, Len(sep))
        /\ SubSeq(s, k, k + Len(sep) - 1) = sep}

\* of the occurrences P, those a left-to-right scan finds (no two overlap)
RECURSIVE NonOverlapping(_, _, _)
NonOverlapping(P, width, from) ==
    LET Q == {k \in P : k >= from}
    IN IF Q = {} THEN {}
       ELSE LET k == MinOf(Q) IN {k} \cup NonOverlapping(Q, width, k + width)

\* the pieces of s between the cut positions cuts (a sorted sequence)
RECURSIVE Pieces(_, _, _, _, _)
Pieces(s, cuts, width, n, start) ==
    IF n > Len(cuts) THEN <<SubSeq(s, start, Len(s))>>
    ELSE <<SubSeq(s, start, cuts[n] - 1)>>
         \o Pieces(s, cuts, width, n + 1, cuts[n] + width)

\* strings.Split(s, sep) for a non-empty sep
Split(s, sep) ==
    LET P == Occurrences(s, sep, 1)
        cuts == SortedSeq(IF Len(sep) = 1 THEN P
                          ELSE NonOverlapping(P, Len(sep), 1))
    IN Pieces(s, cuts, Len(sep), 1, 1)

\* tests on texts, used to describe the inputs and to state the properties
Contains(s, sub) == Occurrences(s, sub, 1) # {}

StartsWith(s, prefix) ==
    Len(s) >= Len(prefix) /\ SubSeq(s, 1, Len(prefix)) = prefix

EndsWith(s, suffix) ==
    Len(s) >= Len(suffix)
    /\ SubSeq(s, Len(s) - Len(suffix) + 1, Len(s)) = suffix

\* strings.Join(elems, sep)
RECURSIVE Join(_, _)
Join(elems, sep) ==
    IF Len(elems) = 0 THEN ""
    ELSE IF Len(elems) = 1 THEN elems[1]
    ELSE elems[1] \o sep \o Join(Tail(elems), sep)

(***************************************************************************)
(* package regexp: the pattern (?s)(http\s*\{)(.*?)(\})                     *)
(***************************************************************************)
\* \s* is greedy and the next item is a brace, so it takes the whole run
RECURSIVE SkipSpace(_, _)
SkipSpace(s, j) ==
    IF j <= Len(s) /\ At(s, j) \in RegexSpace THEN SkipSpace(s, j + 1) ELSE j

\* a slip: the pattern http\{ , with no \s* between the word and the brace
HttpOpenEndNoSpace(s, i) ==
    IF At(s, i) = "h" /\ Slice(s, i, i + 3) = "http" /\ At(s, i + 4) = "{"
    THEN i + 4
    ELSE 0

\* the position of the "{" that ends group 1 when "http" starts at i, else 0
HttpOpenEnd(s, i) ==
    IF At(s, i) = "h" /\ Slice(s, i, i + 3) = "http"
    THEN LET j == SkipSpace(s, i + 4)
         IN IF At(s, j) = "{" THEN j ELSE 0
    ELSE 0

\* a slip: .* instead of .*? , so the match runs to the last "}"
HttpRegexFindGreedy(s, from) ==
    LET closes == {k \in from..Len(s) : At(s, k) = "}"}
        starts == {i \in from..(Len(s) - 5) :
                     /\ HttpOpenEnd(s, i) > 0
                     /\ \E k \in closes : k > HttpOpenEnd(s, i)}
    IN IF starts = {} THEN <<>>
       ELSE LET i == MinOf(starts)
                j == HttpOpenEnd(s, i)
            IN <<i, j, CHOOSE k \in closes : \A c \in closes : c <= k>>

\* The leftmost match at or after from, as <<start, end of group 1, end>>,
\* or <<>>: .*? is lazy, so the match ends at the first "}" after the "{".
HttpRegexFind(s, from) ==
    LET closes == {k \in from..Len(s) : At(s, k) = "}"}
        starts == {i \in from..(Len(s) - 5) :
                     /\ HttpOpenEnd(s, i) > 0
                     /\ \E k \in closes : k > HttpOpenEnd(s, i)}
    IN IF starts = {} THEN <<>>
       ELSE LET i == MinOf(starts)
                j == HttpOpenEnd(s, i)
            IN <<i, j, MinOf({k \in closes : k > j})>>

\* the texts of groups 0..3 of the match m of s
Groups(s, m) ==
    <<SubSeq(s, m[1], m[3]), SubSeq(s, m[1], m[2]),
      SubSeq(s, m[2] + 1, m[3] - 1), SubSeq(s, m[3], m[3])>>

\* httpRegex.FindStringSubmatch(s): nil (<<>>) or the four group texts
FindStringSubmatch(s) ==
    LET m == HttpRegexFind(s, 1)
    IN IF m = <<>> THEN <<>> ELSE Groups(s, m)

\* extract: a name is made of letters, digits and "_"
NameChars == Letters \cup Digits \cup {"_"}

IsNameChar(c) == c \in NameChars

\* one past the last name character of t at or after i
RECURSIVE NameEnd(_, _)
NameEnd(t, i) ==
    IF i <= Len(t) /\ IsNameChar(At(t, i)) THEN NameEnd(t, i + 1) ELSE i

\* extract's "Parse number": -1 unless name is a decimal without leading zero
RECURSIVE ParseNum(_, _, _)
ParseNum(name, i, num) ==
    IF i > Len(name) THEN num
    ELSE IF At(name, i) \notin Digits \/ num >= 100000000 THEN -1
    ELSE ParseNum(name, i + 1, num * 10 + DigitVal(At(name, i)))

\* regexp's extract on the template t after a "$" at position p - 1:
\* [ok, num, rest] with rest the position where the template goes on
Extract(t, p) ==
    LET brace == At(t, p) = "{"
        b == IF brace THEN p + 1 ELSE p
        e == NameEnd(t, b)
        name == SubSeq(t, b, e - 1)
        n0 == ParseNum(name, 1, 0)
        num == IF At(name, 1) = "0" /\ Len(name) > 1 THEN -1 ELSE n0
    IN IF p > Len(t) \/ e = b THEN [ok |-> FALSE, num |-> -1, rest |-> p]
       ELSE IF brace /\ At(t, e) # "}"
            THEN [ok |-> FALSE, num |-> -1, rest |-> p]
       ELSE [ok |-> TRUE, num |-> num, rest |-> IF brace THEN e + 1 ELSE e]

\* Regexp.expand: the template t from position p on, with $name, ${name}
\* and $$ interpreted.  The pattern has groups 0..3 and none is named, so a
\* name that is no number in 0..3 expands to nothing.
RECURSIVE ExpandFrom(_, _, _, _)
ExpandFrom(t, p, dollars, groups) ==
    LET next == {d \in dollars : d >= p}
    IN IF next = {} THEN SubSeq(t, p, Len(t))
       ELSE LET d == MinOf(next)
                before == SubSeq(t, p, d - 1)
            IN IF At(t, d + 1) = "$"
               THEN before \o "$" \o ExpandFrom(t, d + 2, dollars, groups)
               ELSE LET x == Extract(t, d + 1)
                    IN IF ~x.ok
                       THEN before \o "$"
                            \o ExpandFrom(t, d + 1, dollars, groups)
                       ELSE before
                            \o (IF x.num >= 0 /\ x.num < Len(groups)
                                THEN groups[x.num + 1] ELSE "")
                            \o ExpandFrom(t, x.rest, dollars, groups)

Expand(t, groups) ==
    ExpandFrom(t, 1, {d \in 1..Len(t) : At(t, d) = "$"}, groups)

\* Regexp.replaceAll: every match, left to right, replaced by the expanded
\* template; the text between the matches is copied
RECURSIVE ReplaceFrom(_, _, _, _)
ReplaceFrom(src, repl, searchPos, lastMatchEnd) ==
    LET m == HttpRegexFind(src, searchPos)
    IN IF m = <<>> THEN SubSeq(src, lastMatchEnd + 1, Len(src))
       ELSE SubSeq(src, lastMatchEnd + 1, m[1] - 1)
            \o Expand(repl, Groups(src, m))
            \o ReplaceFrom(src, repl, m[3] + 1, m[3])

\* httpRegex.ReplaceAllString(src, repl)
ReplaceAllString(src, repl) == ReplaceFrom(src, repl, 1, 0)

(***************************************************************************)
(* package generator                                                        *)
(***************************************************************************)
\* a nil error, and the errors of the package
Nil == "<nil>"

ErrNoHttp == "could not find http section in nginx configuration"

\* Generator.addServerBlock: [result, err]
addServerBlock(nginxContent, serverBlock) ==
    LET matches == FindStringSubmatch(nginxContent)
    IN IF Len(matches) # 4 THEN [result |-> "", err |-> ErrNoHttp]
       ELSE LET httpStart == matches[2]
                httpContent == TrimRight(matches[3], {" ", "\t", "\n"})
                httpEnd == matches[4]
                newHttpContent == httpContent \o "\n\n" \o serverBlock \o "\n"
            IN [result |-> ReplaceAllString(nginxContent,
                               httpStart \o newHttpContent \o httpEnd),
                err |-> Nil]

\* Generator.GenerateStaticServerBlock: the template with its four %s
GenerateStaticServerBlock(cfg) ==
    "    server {\n"
    \o "        listen " \o cfg.Listen \o ";\n"
    \o "        server_name " \o cfg.ServerName \o ";\n"
    \o "        root " \o cfg.Root \o ";\n"
    \o "        index " \o cfg.Index \o ";\n"
    \o "        location / {\n"
    \o "            try_files $uri $uri/ =404;\n"
    \o "        }\n"
    \o "    }"

\* a slip: the port is looked at first, and wins when both are given
ProxyTargetPortFirst(cfg) ==
    IF cfg.ProxyPort # ""
    THEN "http://127.0.0.1:" \o cfg.ProxyPort
    ELSE cfg.ProxyPass

\* the proxyTarget of GenerateProxyServerBlock
ProxyTarget(cfg) ==
    IF cfg.ProxyPass = "" /\ cfg.ProxyPort # ""
    THEN "http://127.0.0.1:" \o cfg.ProxyPort
    ELSE cfg.ProxyPass

\* Generator.GenerateProxyServerBlock: the template with its four %s
GenerateProxyServerBlock(cfg) ==
    "    server {\n"
    \o "        listen " \o cfg.Listen \o ";\n"
    \o "        server_name " \o cfg.ServerName \o ";\n"
    \o "        # Proxy all requests to " \o ProxyTarget(cfg) \o "\n"
    \o "        location / {\n"
    \o "            proxy_pass " \o ProxyTarget(cfg) \o ";\n"
    \o "            proxy_http_version 1.1;\n"
    \o "            proxy_set_header Upgrade $http_upgrade;\n"
    \o "            proxy_set_header Connection 'upgrade';\n"
    \o "            proxy_set_header Host $host;\n"
    \o "            proxy_set_header X-Real-IP $remote_addr;\n"
    \o "            proxy_set_header X-Forwarded-For $proxy_add_x_forwarded_for;\n"
    \o "            proxy_set_header X-Forwarded-Proto $scheme;\n"
    \o "            proxy_set_header X-Forwarded-Host $host;\n"
    \o "            proxy_set_header X-Forwarded-Port $server_port;\n"
    \o "            proxy_cache_bypass $http_upgrade;\n"
    \o "            proxy_redirect off;\n"
    \o "        }\n"
    \o "    }"

\* len(serverRegex.FindAllString(s, -1)) for (?s)server\s*\{ : two matches
\* never overlap, so every start position counts
ServerCount(s) ==
    Cardinality({i \in 1..Len(s) :
        /\ At(s, i) = "s"
        /\ Slice(s, i, i + 5) = "server"
        /\ At(s, SkipSpace(s, i + 6)) = "{"})

\* a Go index expression on a slice: in range or a run-time panic
InRange(slice, i) == i >= 0 /\ i < Len(slice)

ErrPanic == "panic: runtime error: index out of range"

\* a slip: the collapse starts at more than 2 lines instead of more than 3
PreviewBeforeOver2(beforeHttp) ==
    LET beforeLines == Split(TrimSpace(beforeHttp), "\n")
        n == Len(beforeLines)
    IN IF n > 2
       THEN "...\n" \o Join(SubSeq(beforeLines, n - 1, n), "\n") \o "\n"
       ELSE beforeHttp

\* GeneratePreview, lines 120-128: what is written for the text before http
PreviewBefore(beforeHttp) ==
    LET beforeLines == Split(TrimSpace(beforeHttp), "\n")
        n == Len(beforeLines)
    IN IF n > 3
       THEN "...\n" \o Join(SubSeq(beforeLines, n - 1, n), "\n") \o "\n"
       ELSE beforeHttp

\* GeneratePreview, lines 133-142: the summary of the section's content
PreviewInside(httpContent) ==
    LET serverCount == ServerCount(httpContent)
        httpLines == Split(TrimSpace(httpContent), "\n")
    IN IF serverCount > 0
       THEN "    # ... (" \o ToString(serverCount)
            \o " existing server block(s)) ...\n" \o "\n"
       ELSE IF Len(httpLines) > 0 /\ TrimSpace(httpLines[1]) # ""
            THEN "    # ... (existing http directives) ...\n" \o "\n"
            ELSE ""

\* GeneratePreview, lines 152-161: what is written for the text after "}"
PreviewAfter(afterHttp) ==
    IF TrimSpace(afterHttp) # ""
    THEN LET afterLines == Split(TrimSpace(afterHttp), "\n")
         IN IF Len(afterLines) > 2
            THEN "\n" \o Join(SubSeq(afterLines, 1, 2), "\n") \o "\n..."
            ELSE afterHttp
    ELSE ""

\* Generator.GeneratePreview on the content read from the file, [result, err],
\* with afterIdx the index taken of strings.Split(content, httpEnd)
PreviewWith(content, serverBlock, afterIdx) ==
    LET matches == FindStringSubmatch(content)
    IN IF Len(matches) # 4 THEN [result |-> "", err |-> ErrNoHttp]
       ELSE LET httpStart == matches[2]
                httpContent == matches[3]
                httpEnd == matches[4]
                beforeParts == Split(content, httpStart)
                afterParts == Split(content, httpEnd)
            IN IF ~InRange(beforeParts, 0) \/ ~InRange(afterParts, afterIdx)
               THEN [result |-> "", err |-> ErrPanic]
               ELSE [result |->
                        PreviewBefore(beforeParts[1])
                        \o httpStart \o "\n"
                        \o PreviewInside(httpContent)
                        \o "    # === NEW SERVER BLOCK ===\n"
                        \o serverBlock \o "\n"
                        \o "    # === END NEW BLOCK ===\n"
                        \o httpEnd
                        \o PreviewAfter(afterParts[afterIdx + 1]),
                     err |-> Nil]

\* a slip: the text after the section taken as the third piece of the split
PreviewOfThirdPiece(content, serverBlock) ==
    PreviewWith(content, serverBlock, 2)

\* Generator.GeneratePreview: afterHttp := strings.Split(content, httpEnd)[1]
PreviewOf(content, serverBlock) == PreviewWith(content, serverBlock, 1)

(***************************************************************************)
(* State.  doc, applied and ret are the in-memory calls of the splicer and  *)
(* the previewer; files, now, runs and last are the runs on the file        *)
(* system, prompt is the run of the command that waits for its answer.      *)
(***************************************************************************)
VARIABLES
    doc,      \* the document text the next call is given
    applied,  \* the blocks addServerBlock has spliced into doc, in order
    ret,      \* the last call: its name, its arguments and what it returned
    files,    \* the file system: path -> content, for the paths that exist
    now,      \* time.Now().Unix()
    runs,     \* the runs of AddServerToNginx so far
    last,     \* the last run: its arguments, the files before it, its error
    prompt    \* the run of the command that waits at the prompt of showPreview

vars == <<doc, applied, ret, files, now, runs, last, prompt>>

pureVars == <<doc, applied, ret>>

fileVars == <<files, now, runs, last, prompt>>

\* config.ServerConfig values
StaticConfig ==
    [Listen |-> "80", ServerName |-> "blog.io", Root |-> "/var/www/blog",
     Index |-> "index.html", ProxyPass |-> "", ProxyPort |-> ""]

ProxyConfig ==
    [Listen |-> "80", ServerName |-> "api.io", Root |-> "",
     Index |-> "", ProxyPass |-> "", ProxyPort |-> "8084"]

(***************************************************************************)
(* The documents and blocks the calls are tried on.                         *)
(***************************************************************************)
DocTokens == {"http {", "http", "{", "}", "\n", "$1"}

\* every concatenation of at most n tokens
RECURSIVE TokenDocs(_)
TokenDocs(n) ==
    IF n = 0 THEN {""}
    ELSE {""} \cup {t \o d : t \in DocTokens, d \in TokenDocs(n - 1)}

\* k lines, each the text line
RECURSIVE Lines(_, _)
Lines(line, k) == IF k = 0 THEN "" ELSE line \o "\n" \o Lines(line, k - 1)

Sections == {"http {\n  i;\n}\n", "events {\n}\nhttp {\n}\n"}

\* a section with up to MaxPreLines lines before and MaxPostLines after it
LineDocs ==
    {Lines("a;", k) \o s \o Lines("z;", m) :
        k \in 0..MaxPreLines, s \in Sections, m \in 0..MaxPostLines}

\* documents as operators have them: the section holds a server block, two
\* server blocks or a server block with a location; the file has CRLF line
\* ends; the file holds a second region the pattern matches, with the same
\* body and with another one; the file holds an upstream block named myhttp
\* and no http block
ConfDocs ==
    {"http {\n  server {\n  }\n}",
     "http {\n  server {\n  }\n  server {\n  }\n}\n",
     "http {\n  server {\n    location / {\n    }\n  }\n}\n",
     "http {\r\n  i;\r\n}\r\n",
     "http {\n}\nhttp {\n}\n",
     "http {\n  a;\n}\nhttp {\n  b;\n}\n",
     "upstream myhttp {\n  server a;\n}\n"}

Documents == TokenDocs(MaxSegs) \cup LineDocs \cup ConfDocs

\* a block without "$", and one with nginx variables as the templates have
SpliceBlocks ==
    {"server {\n  listen 80;\n}",
     "location / {\n  try_files $uri $uri/ =404;\n}"}

NoRet == [op |-> "none", in |-> "", block |-> "", result |-> "", err |-> Nil]

EmptyFS == [p \in {} |-> ""]

NoRun ==
    [op |-> "none", cfg |-> StaticConfig, serverType |-> "", backup |-> FALSE,
     before |-> EmptyFS, time |-> 0, result |-> "", err |-> Nil]

\* no run of the command waits at the prompt
NoPrompt ==
    [open |-> FALSE, cfg |-> StaticConfig, serverType |-> "",
     backup |-> FALSE, preview |-> ""]

\* time.Now().Unix() when the first run starts
StartTime == 1700000000

(***************************************************************************)
(* The in-memory calls: g.addServerBlock(doc, b), and GeneratePreview on the *)
(* text doc.                                                                *)
(***************************************************************************)
CallAddServerBlock(b) ==
    /\ Len(applied) < MaxApply
    /\ LET r == addServerBlock(doc, b)
       IN /\ ret' = [op |-> "add", in |-> doc, block |-> b,
                     result |-> r.result, err |-> r.err]
          /\ doc' = IF r.err = Nil THEN r.result ELSE doc
          /\ applied' = IF r.err = Nil THEN Append(applied, b) ELSE applied
    /\ UNCHANGED fileVars

CallGeneratePreview(b) ==
    /\ LET r == PreviewOf(doc, b)
       IN ret' = [op |-> "preview", in |-> doc, block |-> b,
                  result |-> r.result, err |-> r.err]
    /\ UNCHANGED <<doc, applied>>
    /\ UNCHANGED fileVars

SpliceInit ==
    /\ doc \in Documents
    /\ applied = <<>>
    /\ ret = NoRet
    /\ files = EmptyFS
    /\ now = StartTime
    /\ runs = 0
    /\ last = NoRun
    /\ prompt = NoPrompt

SpliceNext ==
    \E b \in SpliceBlocks :
        \/ CallAddServerBlock(b)
        \/ CallGeneratePreview(b)

SpecSplice == SpliceInit /\ [][SpliceNext]_vars

(***************************************************************************)
(* The renderers called on their own: ret holds the record, the renderer    *)
(* called and the block it returned.                                         *)
(***************************************************************************)
\* the records the renderers are tried on: every field empty or not, the
\* target given as a URL, as a port, as both and as neither
RenderConfigs ==
    [Listen : {"", "80", "8080"},
     ServerName : {"", "api.io"},
     Root : {"", "/var/www/blog"},
     Index : {"index.html"},
     ProxyPass : {"", "http://127.0.0.1:3000", "https://up.io"},
     ProxyPort : {"", "8084"}]

CallGenerateStaticServerBlock ==
    /\ ret' = [ret EXCEPT !.op = "static",
                          !.result = GenerateStaticServerBlock(ret.cfg)]
    /\ UNCHANGED <<doc, applied>>
    /\ UNCHANGED fileVars

CallGenerateProxyServerBlock ==
    /\ ret' = [ret EXCEPT !.op = "proxy",
                          !.result = GenerateProxyServerBlock(ret.cfg)]
    /\ UNCHANGED <<doc, applied>>
    /\ UNCHANGED fileVars

RenderInit ==
    /\ ret \in {[op |-> "none", cfg |-> c, result |-> ""] :
                    c \in RenderConfigs}
    /\ doc = ""
    /\ applied = <<>>
    /\ files = EmptyFS
    /\ now = StartTime
    /\ runs = 0
    /\ last = NoRun
    /\ prompt = NoPrompt

RenderNext ==
    \/ CallGenerateStaticServerBlock
    \/ CallGenerateProxyServerBlock

SpecRender == RenderInit /\ [][RenderNext]_vars

(***************************************************************************)
(* package os, as the generator uses it.  os.WriteFile opens the file with *)
(* O_WRONLY|O_CREATE|O_TRUNC, writes the data and closes the file; each of  *)
(* the three steps can fail.  The error numbers are those of a directory    *)
(* that may not be written, a full device and a failing device; the system  *)
(* can give others.                                                         *)
(***************************************************************************)
ErrNotExist(path) == "open " \o path \o ": no such file or directory"

ErrPermission(path) == "open " \o path \o ": permission denied"

ErrNoSpace(path) == "write " \o path \o ": no space left on device"

\* an error of os.WriteFile
WriteFailed(err) ==
    \E e \in {": permission denied", ": no space left on device",
              ": input/output error"} : EndsWith(err, e)

\* the file system fs with the file at path holding data
WithFile(fs, path, data) ==
    [p \in DOMAIN fs \cup {path} |-> IF p = path THEN data ELSE fs[p]]

\* os.WriteFile(path, data, 0644) that fails as how says, or not at all:
\* [fs, err].  Once the file is open it exists and is empty.
WriteFile(fs, path, data, how) ==
    CASE how = "open" -> [fs |-> fs, err |-> ErrPermission(path)]
      [] how = "write" ->
            [fs |-> WithFile(fs, path, ""), err |-> ErrNoSpace(path)]
      [] how = "short" ->
            [fs |-> WithFile(fs, path, SubSeq(data, 1, Len(data) \div 2)),
             err |-> ErrNoSpace(path)]
      [] how = "close" ->
            [fs |-> WithFile(fs, path, data),
             err |-> "close " \o path \o ": input/output error"]
      [] OTHER -> [fs |-> WithFile(fs, path, data), err |-> Nil]

\* a slip: the source is read but the copy is never written
copyFileNoWrite(fs, src, dst, how) ==
    IF src \notin DOMAIN fs THEN [fs |-> fs, err |-> ErrNotExist(src)]
    ELSE [fs |-> fs, err |-> WriteFile(fs, dst, fs[src], how).err]

\* Generator.copyFile(src, dst): [fs, err]
copyFile(fs, src, dst, how) ==
    IF src \notin DOMAIN fs THEN [fs |-> fs, err |-> ErrNotExist(src)]
    ELSE WriteFile(fs, dst, fs[src], how)

(***************************************************************************)
(* package config: the record, the decoders of encoding/json and of         *)
(* gopkg.in/yaml.v2 that Load calls, and Load.                              *)
(***************************************************************************)
\* the zero value of ServerConfig
ZeroConfig ==
    [Listen |-> "", ServerName |-> "", Root |-> "", Index |-> "",
     ProxyPass |-> "", ProxyPort |-> ""]

\* the json and yaml tags of the fields of ServerConfig
Tags ==
    {"listen", "server_name", "root", "index", "proxy_pass", "proxy_port"}

\* the record cfg with the field of the tag set to value
SetField(cfg, tag, value) ==
    CASE tag = "listen" -> [cfg EXCEPT !.Listen = value]
      [] tag = "server_name" -> [cfg EXCEPT !.ServerName = value]
      [] tag = "root" -> [cfg EXCEPT !.Root = value]
      [] tag = "index" -> [cfg EXCEPT !.Index = value]
      [] tag = "proxy_pass" -> [cfg EXCEPT !.ProxyPass = value]
      [] tag = "proxy_port" -> [cfg EXCEPT !.ProxyPort = value]
      [] OTHER -> cfg

\* one past the characters of the set chars that s has from position j on
SkipChars(s, j, chars) ==
    IF j > Len(s) THEN j
    ELSE CHOOSE k \in j..(Len(s) + 1) :
            /\ At(s, k) \notin chars
            /\ \A m \in j..(k - 1) : At(s, m) \in chars

\* a text the decoders are not modelled on: what they make of it is left open
NotModelled(text) == CHOOSE r \in {} : r = text

(***************************************************************************)
(* encoding/json: the scanner that checks the syntax of the whole text, in  *)
(* the order of its states, and the decoder into a ServerConfig.            *)
(***************************************************************************)
\* isSpace
JsonSpace == {" ", "\t", "\n", "\r"}

HexDigits == "0123456789abcdef"

HexChars ==
    Digits \cup {"a", "b", "c", "d", "e", "f", "A", "B", "C", "D", "E", "F"}

\* the value of the hexadecimal digit c
HexVal(c) == (CHOOSE k \in 1..16 : At(HexDigits, k) = LowerChar(c)) - 1

\* the first byte of the UTF-8 encoding of c, as the character of that code
\* point: the scanner steps through bytes
LeadByte(c) ==
    IF CodePoint(c) < 128 THEN c
    ELSE IF CodePoint(c) < 192 THEN "Â" ELSE "Ã"

\* strconv.Quote of the byte c, without the quotes around it
QuotedByte(c) ==
    CASE c = "\\" -> "\\\\"
      [] c = "\t" -> "\\t"
      [] c = "\n" -> "\\n"
      [] c = "\f" -> "\\f"
      [] c = "\r" -> "\\r"
      [] c = VT -> "\\v"
      [] CodePoint(c) = 7 -> "\\a"
      [] CodePoint(c) = 8 -> "\\b"
      [] OTHER ->
            IF CodePoint(c) < 32 \/ CodePoint(c) = 127
            THEN "\\x" \o At(HexDigits, (CodePoint(c) \div 16) + 1)
                 \o At(HexDigits, (CodePoint(c) % 16) + 1)
            ELSE c

\* quoteChar
quoteChar(c) ==
    IF c = "'" THEN "'\\''"
    ELSE IF c = "\"" THEN "'\"'"
    ELSE "'" \o QuotedByte(c) \o "'"

\* the SyntaxError of a state that does not take the character at position j
\* of s; at the end of s the scanner is stepped with a space
InvalidCharacter(s, j, context) ==
    "invalid character "
    \o (IF j > Len(s) THEN "' '" ELSE quoteChar(LeadByte(At(s, j))))
    \o " " \o context

\* scanner.eof in a state that takes the space
UnexpectedEnd == "unexpected end of JSON input"

\* a value that was not scanned to its end, and one that was, with its kind,
\* the text of a string, the members of an object and the position after it
JsonFailed(err) ==
    [err |-> err, kind |-> "", text |-> "", members |-> <<>>, next |-> 0]

JsonScanned(kind, text, members, next) ==
    [err |-> Nil, kind |-> kind, text |-> text, members |-> members,
     next |-> next]

\* unquote, a character after a backslash
UnquoteChar(c) ==
    CASE c = "b" -> SubSeq(Latin1, 8, 8)
      [] c = "f" -> "\f"
      [] c = "n" -> "\n"
      [] c = "r" -> "\r"
      [] c = "t" -> "\t"
      [] OTHER -> c

\* unquote, the four hexadecimal digits h after \u; the characters above
\* U+00FF and U+0000 are none of the model's texts
UnquoteU(h) ==
    LET code == HexVal(At(h, 3)) * 16 + HexVal(At(h, 4))
    IN IF At(h, 1) # "0" \/ At(h, 2) # "0" \/ code = 0
       THEN NotModelled(h)
       ELSE SubSeq(Latin1, code, code)

\* unquote: the text of a string literal with the body t
RECURSIVE Unquote(_)
Unquote(t) ==
    LET slashes == {k \in 1..Len(t) : At(t, k) = "\\"}
        k == MinOf(slashes)
    IN IF slashes = {} THEN t
       ELSE IF At(t, k + 1) = "u"
       THEN SubSeq(t, 1, k - 1) \o UnquoteU(SubSeq(t, k + 2, k + 5))
            \o Unquote(SubSeq(t, k + 6, Len(t)))
       ELSE SubSeq(t, 1, k - 1) \o UnquoteChar(At(t, k + 1))
            \o Unquote(SubSeq(t, k + 2, Len(t)))

\* the string literal that starts with the quote at position i of s
\* (stateInString, stateInStringEsc, stateInStringEscU...): a character is
\* escaped when an odd number of backslashes stands before it; the literal
\* ends at the first character that ends it or that its state does not take
JsonString(s, i) ==
    LET Slashes(k) ==
            k - 1 - (CHOOSE p \in i..(k - 1) :
                        /\ p = i \/ At(s, p) # "\\"
                        /\ \A q \in (p + 1)..(k - 1) : At(s, q) = "\\")
        Escaped(k) == Slashes(k) % 2 = 1
        InHex(k) ==
            \E u \in (k - 4)..(k - 1) :
                u > i /\ At(s, u) = "u" /\ Escaped(u)
        badHex ==
            {k \in (i + 1)..(Len(s) + 1) :
                InHex(k) /\ At(s, k) \notin HexChars}
        badEsc ==
            {k \in (i + 1)..(Len(s) + 1) :
                /\ Escaped(k)
                /\ At(s, k) \notin {"b", "f", "n", "r", "t", "\\", "/",
                                     "\"", "u"}}
        plain == {k \in (i + 1)..Len(s) : ~Escaped(k) /\ ~InHex(k)}
        control == {k \in plain : CodePoint(At(s, k)) < 32}
        quote == {k \in plain : At(s, k) = "\""}
        ends == badHex \cup badEsc \cup control \cup quote
        end == MinOf(ends)
    IN IF ends = {} THEN JsonFailed(UnexpectedEnd)
       ELSE IF end \in badHex
       THEN JsonFailed(InvalidCharacter(s, end,
                "in \\u hexadecimal character escape"))
       ELSE IF end \in badEsc
       THEN JsonFailed(InvalidCharacter(s, end, "in string escape code"))
       ELSE IF end \in control
       THEN JsonFailed(InvalidCharacter(s, end, "in string literal"))
       ELSE JsonScanned("string", Unquote(SubSeq(s, i + 1, end - 1)), <<>>,
                        end + 1)

\* the number that starts at position i of s (stateNeg, state0, state1,
\* stateDot, stateDot0, stateE, stateESign, stateE0)
JsonNumber(s, i) ==
    LET int == IF At(s, i) = "-" THEN i + 1 ELSE i
        dot == IF At(s, int) = "0" THEN int + 1
               ELSE SkipChars(s, int + 1, Digits)
        exp == IF At(s, dot) = "." THEN SkipChars(s, dot + 2, Digits)
               ELSE dot
        sign == IF At(s, exp + 1) \in {"+", "-"} THEN exp + 2 ELSE exp + 1
    IN IF At(s, int) \notin Digits
       THEN JsonFailed(InvalidCharacter(s, int, "in numeric literal"))
       ELSE IF At(s, dot) = "." /\ At(s, dot + 1) \notin Digits
       THEN JsonFailed(InvalidCharacter(s, dot + 1,
                "after decimal point in numeric literal"))
       ELSE IF At(s, exp) \notin {"e", "E"}
       THEN JsonScanned("number", "", <<>>, exp)
       ELSE IF At(s, sign) \notin Digits
       THEN JsonFailed(InvalidCharacter(s, sign,
                "in exponent of numeric literal"))
       ELSE JsonScanned("number", "", <<>>, SkipChars(s, sign + 1, Digits))

\* the literal word (true, false or null) whose first letter is at position
\* i of s (stateT..., stateF..., stateN...)
JsonLiteral(s, i, word, kind) ==
    LET wrong == {k \in 2..Len(word) : At(s, i + k - 1) # At(word, k)}
        k == MinOf(wrong)
    IN IF wrong = {} THEN JsonScanned(kind, "", <<>>, i + Len(word))
       ELSE JsonFailed(InvalidCharacter(s, i + k - 1,
                "in literal " \o word \o " (expecting '" \o At(word, k)
                \o "')"))

\* the scanner keeps a stack of the objects and arrays it is in, parseState,
\* and pushParseState refuses to make it deeper than maxNestingDepth, 10000:
\* depth is the number of objects and arrays open around the position
RECURSIVE JsonValue(_, _, _)
RECURSIVE JsonMembers(_, _, _, _)
RECURSIVE JsonElements(_, _, _)

\* stateEndValue after the value of a member: a comma and the next member,
\* or the brace that ends the object
JsonAfterValue(s, name, value, members, depth) ==
    LET sep == SkipChars(s, value.next, JsonSpace)
        all == Append(members, [key |-> name, kind |-> value.kind,
                                text |-> value.text])
    IN IF value.err # Nil THEN JsonFailed(value.err)
       ELSE IF sep > Len(s) THEN JsonFailed(UnexpectedEnd)
       ELSE IF At(s, sep) = ","
       THEN JsonMembers(s, SkipChars(s, sep + 1, JsonSpace), all, depth)
       ELSE IF At(s, sep) = "}" THEN JsonScanned("object", "", all, sep + 1)
       ELSE JsonFailed(InvalidCharacter(s, sep,
                "after object key:value pair"))

\* stateEndValue after the key of a member: the colon and the value
JsonAfterKey(s, key, members, depth) ==
    LET colon == SkipChars(s, key.next, JsonSpace)
    IN IF key.err # Nil THEN JsonFailed(key.err)
       ELSE IF colon > Len(s) THEN JsonFailed(UnexpectedEnd)
       ELSE IF At(s, colon) # ":"
       THEN JsonFailed(InvalidCharacter(s, colon, "after object key"))
       ELSE JsonAfterValue(s, key.text,
                JsonValue(s, SkipChars(s, colon + 1, JsonSpace), depth),
                members, depth)

\* stateBeginString: the members of an object from the key at position j of
\* s on, after the members already scanned
JsonMembers(s, j, members, depth) ==
    IF j > Len(s) THEN JsonFailed(UnexpectedEnd)
    ELSE IF At(s, j) # "\""
    THEN JsonFailed(InvalidCharacter(s, j,
             "looking for beginning of object key string"))
    ELSE JsonAfterKey(s, JsonString(s, j), members, depth)

\* stateEndValue after an element of an array: a comma and the next element,
\* or the bracket that ends the array
JsonElements(s, value, depth) ==
    LET sep == SkipChars(s, value.next, JsonSpace)
    IN IF value.err # Nil THEN JsonFailed(value.err)
       ELSE IF sep > Len(s) THEN JsonFailed(UnexpectedEnd)
       ELSE IF At(s, sep) = ","
       THEN JsonElements(s,
                JsonValue(s, SkipChars(s, sep + 1, JsonSpace), depth), depth)
       ELSE IF At(s, sep) = "]" THEN JsonScanned("array", "", <<>>, sep + 1)
       ELSE JsonFailed(InvalidCharacter(s, sep, "after array element"))

\* stateBeginValue: the value that starts at position i of s, the space
\* before it skipped, with depth objects and arrays open around it.  A brace
\* or bracket that opens one more than 10000 is refused (pushParseState)
JsonValue(s, i, depth) ==
    LET c == At(s, i)
        first == SkipChars(s, i + 1, JsonSpace)
    IN IF i > Len(s) THEN JsonFailed(UnexpectedEnd)
       ELSE IF c \in {"{", "["} /\ depth + 1 > 10000
       THEN JsonFailed(InvalidCharacter(s, i, "exceeded max depth"))
       ELSE IF c = "{"
       THEN IF At(s, first) = "}"
            THEN JsonScanned("object", "", <<>>, first + 1)
            ELSE JsonMembers(s, first, <<>>, depth + 1)
       ELSE IF c = "["
       THEN IF At(s, first) = "]"
            THEN JsonScanned("array", "", <<>>, first + 1)
            ELSE JsonElements(s, JsonValue(s, first, depth + 1), depth + 1)
       ELSE IF c = "\"" THEN JsonString(s, i)
       ELSE IF c = "-" \/ c \in Digits THEN JsonNumber(s, i)
       ELSE IF c = "t" THEN JsonLiteral(s, i, "true", "bool")
       ELSE IF c = "f" THEN JsonLiteral(s, i, "false", "bool")
       ELSE IF c = "n" THEN JsonLiteral(s, i, "null", "null")
       ELSE JsonFailed(InvalidCharacter(s, i,
                "looking for beginning of value"))

\* stateEndTop: nothing but space after the value
JsonAfterTop(data, value) ==
    LET end == SkipChars(data, value.next, JsonSpace)
    IN IF value.err = Nil /\ end <= Len(data)
       THEN JsonFailed(InvalidCharacter(data, end, "after top-level value"))
       ELSE value

\* the field of a key: the tag that equals it, or else the tag that equals
\* it up to the case of its letters; "" when there is none
JsonField(key) ==
    IF key \in Tags THEN key
    ELSE IF ToLower(key) \in Tags THEN ToLower(key) ELSE ""

\* UnmarshalTypeError.Error for a value in the field of the tag
JsonTypeError(kind, tag) ==
    "json: cannot unmarshal " \o kind
    \o " into Go struct field ServerConfig." \o tag \o " of type string"

\* decodeState.object: the members stored into cfg one after the other.  A
\* string is stored, null and the members of no field are skipped, any
\* other value is skipped too and the first of them is the error
RECURSIVE JsonStore(_, _, _)
JsonStore(members, cfg, err) ==
    IF members = <<>> THEN [cfg |-> cfg, err |-> err]
    ELSE LET m == Head(members)
             tag == JsonField(m.key)
         IN IF tag = "" \/ m.kind = "null"
            THEN JsonStore(Tail(members), cfg, err)
            ELSE IF m.kind = "string"
            THEN JsonStore(Tail(members), SetField(cfg, tag, m.text), err)
            ELSE JsonStore(Tail(members), cfg,
                           IF err = Nil THEN JsonTypeError(m.kind, tag)
                           ELSE err)

\* decodeState.unmarshal of the scanned value into cfg
JsonDecode(value, cfg) ==
    IF value.err # Nil THEN [cfg |-> cfg, err |-> value.err]
    ELSE IF value.kind = "null" THEN [cfg |-> cfg, err |-> Nil]
    ELSE IF value.kind = "object" THEN JsonStore(value.members, cfg, Nil)
    ELSE [cfg |-> cfg,
          err |-> "json: cannot unmarshal " \o value.kind
                  \o " into Go value of type config.ServerConfig"]

\* json.Unmarshal(data, &cfg): [cfg, err].  checkValid scans the whole text
\* before anything is stored
JsonUnmarshal(data, cfg) ==
    JsonDecode(JsonAfterTop(data,
                            JsonValue(data, SkipChars(data, 1, JsonSpace),
                                      0)),
               cfg)

(***************************************************************************)
(* gopkg.in/yaml.v2, on the texts of configuration files: a block mapping  *)
(* whose entries stand one on a line, all at the same indentation, or a     *)
(* flow mapping of double-quoted strings as a JSON file has it, with        *)
(* comments, blank lines and a document start.  Keys and values are plain,  *)
(* single-quoted or double-quoted scalars.  What the decoder makes of any   *)
(* other text (a nested or multi-line value, a sequence, an anchor, a tag,  *)
(* a tab) is left open.                                                     *)
(***************************************************************************)
\* the characters of a line: the printable ones
YamlPrintable ==
    {SubSeq(Latin1, k, k) : k \in (32..126) \cup (160..255)}

\* the characters that end a line; "\r\n" ends one line
YamlBreaks == {"\n", "\r", NEL}

\* the lines of the text t, without their ends
RECURSIVE YamlSplit(_)
YamlSplit(t) ==
    LET breaks == {k \in 1..Len(t) : At(t, k) \in YamlBreaks}
        k == MinOf(breaks)
        width == IF At(t, k) = "\r" /\ At(t, k + 1) = "\n" THEN 2 ELSE 1
    IN IF breaks = {} THEN <<t>>
       ELSE <<SubSeq(t, 1, k - 1)>>
            \o YamlSplit(SubSeq(t, k + width, Len(t)))

AsciiLetters == {SubSeq(Latin1, k, k) : k \in (65..90) \cup (97..122)}

\* the characters of a plain key; it starts with one that is not "-" or "."
YamlKeyChars == AsciiLetters \cup Digits \cup {"_", "-", "."}

\* the characters a plain value can start with: not a space and none of the
\* indicators
YamlPlainStart ==
    YamlPrintable
    \ {" ", "-", "?", ":", ",", "[", "]", "{", "}", "#", "&", "*", "!", "|",
       ">", "'", "\"", "%", "@", "=", "<", BackTick}

\* yaml_parser_scan_flow_scalar: the characters that make an escape after a
\* backslash in a double-quoted scalar; any other is an unknown escape
\* character ("/" is one).  "x", "u" and "U" take 2, 4 and 8 hexadecimal
\* digits behind them
YamlEscapes ==
    {"0", "a", "b", "t", "\t", "n", "v", "f", "r", "e", " ", "\"", "'", "\\",
     "N", "_", "L", "P", "x", "u", "U"}

\* the character of the escape c in a double-quoted scalar, with the
\* hexadecimal digits h behind it; the characters above U+00FF and U+0000
\* are none of the model's texts
YamlEscape(c, h) ==
    LET code == HexVal(At(h, Len(h) - 1)) * 16 + HexVal(At(h, Len(h)))
    IN CASE c = "a" -> SubSeq(Latin1, 7, 7)
         [] c = "b" -> SubSeq(Latin1, 8, 8)
         [] c = "t" -> "\t"
         [] c = "n" -> "\n"
         [] c = "v" -> VT
         [] c = "f" -> "\f"
         [] c = "r" -> "\r"
         [] c = "e" -> SubSeq(Latin1, 27, 27)
         [] c = "N" -> NEL
         [] c = "_" -> NBSP
         [] c \in {" ", "\"", "'", "\\"} -> c
         [] c \in {"x", "u", "U"} ->
               IF /\ \A k \in 1..Len(h) : At(h, k) \in HexChars
                  /\ Len(h) = (IF c = "x" THEN 2 ELSE IF c = "u" THEN 4
                               ELSE 8)
                  /\ \A k \in 1..(Len(h) - 2) : At(h, k) = "0"
                  /\ code > 0
               THEN SubSeq(Latin1, code, code)
               ELSE NotModelled(h)
         [] OTHER -> NotModelled(c)

\* the text of a double-quoted scalar with the body t
RECURSIVE YamlUnescape(_)
YamlUnescape(t) ==
    LET slashes == {k \in 1..Len(t) : At(t, k) = "\\"}
        k == MinOf(slashes)
        c == At(t, k + 1)
        digits == IF c = "x" THEN 2 ELSE IF c = "u" THEN 4
                  ELSE IF c = "U" THEN 8 ELSE 0
    IN IF slashes = {} THEN t
       ELSE SubSeq(t, 1, k - 1)
            \o YamlEscape(c, Slice(t, k + 2, k + 1 + digits))
            \o YamlUnescape(SubSeq(t, k + 2 + digits, Len(t)))

\* the text of a single-quoted scalar with the body t: '' is a quote
RECURSIVE YamlUnquote(_)
YamlUnquote(t) ==
    LET quotes == {k \in 1..Len(t) : At(t, k) = "'"}
        k == MinOf(quotes)
    IN IF quotes = {} THEN t
       ELSE SubSeq(t, 1, k) \o YamlUnquote(SubSeq(t, k + 2, Len(t)))

\* the quoted scalar that starts with the quote at position i of the line:
\* [closed, bad, text, next].  A double quote closes it unless an odd number
\* of backslashes stands before it; a single quote closes it unless it is
\* one of a pair.  The scanner takes the escapes of a double-quoted scalar
\* from left to right, and the scalar is bad with the first one it refuses:
\* an unknown escape character, an "x", "u" or "U" without its hexadecimal
\* digits, or the code of a surrogate or of no character; text is its
\* problem then
YamlQuoted(line, i) ==
    LET Before(k, c) ==
            k - 1 - (CHOOSE p \in i..(k - 1) :
                        /\ p = i \/ At(line, p) # c
                        /\ \A q \in (p + 1)..(k - 1) : At(line, q) = c)
        double == {k \in (i + 1)..Len(line) :
                      At(line, k) = "\"" /\ Before(k, "\\") % 2 = 0}
        single == {k \in (i + 1)..Len(line) :
                      /\ At(line, k) = "'"
                      /\ At(line, k + 1) # "'"
                      /\ Before(k, "'") % 2 = 0}
        closes == IF At(line, i) = "\"" THEN double ELSE single
        close == MinOf(closes)
        end == IF closes = {} THEN Len(line) ELSE close - 1
        Problem(k) ==
            LET c == At(line, k + 1)
                n == IF c = "x" THEN 2 ELSE IF c = "u" THEN 4
                     ELSE IF c = "U" THEN 8 ELSE 0
            IN IF c \notin YamlEscapes THEN "found unknown escape character"
               ELSE IF \E m \in 1..n : At(line, k + 1 + m) \notin HexChars
               THEN "did not find expected hexdecimal number"
               ELSE IF \/ /\ n >= 4  \* U+D800..U+DFFF, a surrogate
                          /\ \A m \in 1..(n - 4) : At(line, k + 1 + m) = "0"
                          /\ At(line, k + n - 2) \in {"d", "D"}
                          /\ At(line, k + n - 1) \notin Digits \ {"8", "9"}
                       \/ /\ n = 8   \* above U+10FFFF
                          /\ Slice(line, k + 2, k + 4) # "000"
                          /\ Slice(line, k + 2, k + 5) # "0010"
               THEN "found invalid Unicode character escape code"
               ELSE ""
        Refused(problems) ==
            IF problems = {} THEN ""
            ELSE (CHOOSE p \in problems : \A q \in problems : p[1] <= q[1])[2]
        refused == Refused({p \in {<<k, Problem(k)>> :
                                     k \in {j \in (i + 1)..(end - 1) :
                                               /\ At(line, i) = "\""
                                               /\ At(line, j) = "\\"
                                               /\ Before(j, "\\") % 2 = 0}} :
                              p[2] # ""})
        Scanned(problem) ==
            IF problem # ""
            THEN [closed |-> FALSE, bad |-> TRUE, text |-> problem,
                  next |-> 0]
            ELSE IF closes = {}
            THEN [closed |-> FALSE, bad |-> FALSE, text |-> "", next |-> 0]
            ELSE [closed |-> TRUE, bad |-> FALSE,
                  text |-> IF At(line, i) = "\""
                           THEN YamlUnescape(SubSeq(line, i + 1, close - 1))
                           ELSE YamlUnquote(SubSeq(line, i + 1, close - 1)),
                  next |-> close + 1]
    IN Scanned(refused)

\* the line from position j on holds nothing but spaces and a comment
YamlRestIsBlank(line, j) ==
    LET r == SkipChars(line, j, {" "})
    IN r > Len(line) \/ (r > j /\ At(line, r) = "#")

\* a line the parser skips: a blank one or a comment
YamlSkipped(line) ==
    LET b == SkipChars(line, 1, {" "})
    IN b > Len(line) \/ At(line, b) = "#"

\* the line is the document start
YamlDocStart(line) == StartsWith(line, "---") /\ YamlRestIsBlank(line, 4)

\* the value that starts at position v of the line, after the colon of an
\* entry and the spaces behind it: [form, null, text].  The forms are
\* "scalar", "colon" for a plain scalar with a second ": " in it, "open" for
\* a quoted scalar that does not end on the line, "escape" for one with an
\* escape the scanner refuses, text its problem, and "other"
YamlScalar(line, v) ==
    LET quoted == YamlQuoted(line, v)
        comments == {k \in (v + 1)..Len(line) :
                        At(line, k) = "#" /\ At(line, k - 1) = " "}
        plain == TrimRight(SubSeq(line, v,
                               IF comments = {} THEN Len(line)
                               ELSE MinOf(comments) - 1), {" "})
    IN IF v > Len(line) \/ At(line, v) = "#"
       THEN [form |-> "scalar", null |-> TRUE, text |-> ""]
       ELSE IF At(line, v) \in {"\"", "'"}
       THEN IF quoted.bad
            THEN [form |-> "escape", null |-> FALSE, text |-> quoted.text]
            ELSE IF ~quoted.closed
            THEN [form |-> "open", null |-> FALSE, text |-> At(line, v)]
            ELSE IF YamlRestIsBlank(line, quoted.next)
            THEN [form |-> "scalar", null |-> FALSE, text |-> quoted.text]
            ELSE [form |-> "other", null |-> FALSE, text |-> ""]
       ELSE IF At(line, v) \notin YamlPlainStart
       THEN [form |-> "other", null |-> FALSE, text |-> ""]
       ELSE IF Contains(plain, ": ") \/ EndsWith(plain, ":")
       THEN [form |-> "colon", null |-> FALSE, text |-> ""]
       ELSE [form |-> "scalar",  \* resolve: the plain scalars that are null
             null |-> plain \in {"", "~", "null", "Null", "NULL"},
             text |-> plain]

\* the key that starts at position b of the line: [closed, bad, text, next]
YamlKey(line, b) ==
    IF At(line, b) \in {"\"", "'"} THEN YamlQuoted(line, b)
    ELSE IF At(line, b) \in YamlKeyChars \ {"-", "."}
    THEN [closed |-> TRUE, bad |-> FALSE,
          text |-> SubSeq(line, b, SkipChars(line, b, YamlKeyChars) - 1),
          next |-> SkipChars(line, b, YamlKeyChars)]
    ELSE [closed |-> FALSE, bad |-> FALSE, text |-> "", next |-> 0]

\* the entry `key: value` of a line: [form, indent, key, null, text], with
\* the forms of YamlScalar, "word" for a plain word without a colon and
\* "stale" for a key whose colon stands more than 1024 characters after its
\* first one: the scanner takes it for no simple key any more
\* (yaml_simple_key_is_valid)
YamlEntryAfterKey(line, b, key) ==
    LET colon == SkipChars(line, key.next, {" "})
        value == YamlScalar(line, SkipChars(line, colon + 1, {" "}))
        none == [form |-> "other", indent |-> b - 1, key |-> "",
                 null |-> FALSE, text |-> ""]
    IN IF key.bad THEN [none EXCEPT !.form = "escape", !.text = key.text]
       ELSE IF ~key.closed THEN none
       ELSE IF At(line, colon) = ":" /\ At(line, colon + 1) \in {"", " "}
       THEN IF colon - b > 1024 THEN [none EXCEPT !.form = "stale"]
            ELSE [form |-> value.form, indent |-> b - 1, key |-> key.text,
                  null |-> value.null, text |-> value.text]
       ELSE IF YamlRestIsBlank(line, key.next)
               /\ At(line, b) \in AsciiLetters
                     \ {"y", "Y", "n", "N", "t", "T", "f", "F", "o", "O"}
       THEN [none EXCEPT !.form = "word", !.text = key.text]
       ELSE none

YamlEntry(line) ==
    YamlEntryAfterKey(line, SkipChars(line, 1, {" "}),
                      YamlKey(line, SkipChars(line, 1, {" "})))

\* parser.fail: the error of the scanner met on line k of the text
YamlScannerError(k, problem) ==
    "yaml: " \o (IF k = 1 THEN "" ELSE "line " \o ToString(k) \o ": ")
    \o problem

\* decoder.terror: a plain word where the mapping is expected, on line k
YamlTypeError(k, word) ==
    "yaml: unmarshal errors:\n  line " \o ToString(k)
    \o ": cannot unmarshal !!str " \o BackTick
    \o (IF Len(word) > 10 THEN SubSeq(word, 1, 7) \o "..." ELSE word)
    \o BackTick \o " into config.ServerConfig"

\* the lines after line k hold nothing that ends or breaks the quoted scalar
\* left open on line k: no quote, no backslash, no document indicator
YamlOpenToEnd(lines, k) ==
    \A n \in (k + 1)..Len(lines) :
        /\ \A j \in 1..Len(lines[n]) : At(lines[n], j) \notin {"\"", "'", "\\"}
        /\ ~StartsWith(lines[n], "---")
        /\ ~StartsWith(lines[n], "...")

\* the entries of the block mapping from line k on, after the entries
\* already read at the indentation indent (-1 before the first):
\* [err, entries].  A stale key at the indentation of the mapping is a key
\* the scanner requires, and it misses the colon; the first key of the text
\* is not required, is read as a scalar, and the colon has no key
RECURSIVE YamlEntries(_, _, _, _)
YamlAfterEntry(lines, k, indent, entries, e) ==
    IF e.form \in {"other", "word"} \/ (indent >= 0 /\ e.indent # indent)
    THEN NotModelled(lines[k])
    ELSE IF e.form = "colon" \/ (e.form = "stale" /\ indent = -1)
    THEN [err |-> YamlScannerError(k,
                      "mapping values are not allowed in this context"),
          entries |-> <<>>]
    ELSE IF e.form = "stale"
    THEN [err |-> YamlScannerError(k, "could not find expected ':'"),
          entries |-> <<>>]
    ELSE IF e.form = "escape"
    THEN [err |-> YamlScannerError(k, e.text),
          entries |-> <<>>]
    ELSE IF e.form = "open"
    THEN IF YamlOpenToEnd(lines, k)
            /\ \A j \in 1..Len(lines[k]) : At(lines[k], j) # "\\"
         THEN [err |-> YamlScannerError(Len(lines),
                           "found unexpected end of stream"),
               entries |-> <<>>]
         ELSE NotModelled(lines[k])
    ELSE YamlEntries(lines, k + 1, e.indent,
                     Append(entries, <<e.key, e.null, e.text>>))

YamlEntries(lines, k, indent, entries) ==
    IF k > Len(lines) THEN [err |-> Nil, entries |-> entries]
    ELSE IF YamlSkipped(lines[k])
    THEN YamlEntries(lines, k + 1, indent, entries)
    ELSE YamlAfterEntry(lines, k, indent, entries, YamlEntry(lines[k]))

\* the pairs of a flow mapping from position j of the text on, a key in
\* double quotes first: [err, entries]
RECURSIVE YamlFlowPairs(_, _, _)
YamlFlowAfterValue(s, key, value, entries) ==
    LET sep == SkipChars(s, value.next, {" "} \cup YamlBreaks)
        rest == YamlSplit(SubSeq(s, sep + 1, Len(s)))
        all == Append(entries, <<key.text, FALSE, value.text>>)
    IN IF ~value.closed THEN NotModelled(s)
       ELSE IF At(s, sep) = ","
       THEN YamlFlowPairs(s, SkipChars(s, sep + 1, {" "} \cup YamlBreaks),
                          all)
       ELSE IF At(s, sep) = "}"
               /\ YamlRestIsBlank(rest[1], 1)
               /\ \A n \in 2..Len(rest) : YamlSkipped(rest[n])
       THEN [err |-> Nil, entries |-> all]
       ELSE NotModelled(s)

\* after the key of a pair that starts at position j: the colon stands on
\* the line of the key and at most 1024 characters after its first one, or
\* the key is no simple key any more, is read without a value, and the
\* parser finds the colon where it expects "," or "}".  Its error names the
\* line of the colon, counted from 0, unless that is the line of the "{"
YamlFlowAfterKey(s, j, key, entries) ==
    LET colon == SkipChars(s, key.next, {" "})
        below == SkipChars(s, key.next, {" "} \cup YamlBreaks)
        at == Len(YamlSplit(SubSeq(s, 1, colon))) - 1
        v == SkipChars(s, colon + 1, {" "} \cup YamlBreaks)
        line == SubSeq(s, 1, MinOf({k \in v..(Len(s) + 1) :
                                       At(s, k) \in YamlBreaks \cup {""}}) - 1)
        Valued(value) ==
            IF value.bad
            THEN [err |-> YamlScannerError(Len(YamlSplit(SubSeq(s, 1, v))),
                              value.text),
                  entries |-> <<>>]
            ELSE YamlFlowAfterValue(s, key, value, entries)
    IN IF ~key.closed THEN NotModelled(s)
       ELSE IF At(s, colon) \in YamlBreaks /\ At(s, below) = ":"
       THEN [err |-> "yaml: line "
                     \o ToString(Len(YamlSplit(SubSeq(s, 1, below))) - 1)
                     \o ": did not find expected ',' or '}'",
             entries |-> <<>>]
       ELSE IF At(s, colon) = ":" /\ colon - j > 1024
       THEN [err |-> "yaml: "
                     \o (IF at = 0 THEN ""
                         ELSE "line " \o ToString(at) \o ": ")
                     \o "did not find expected ',' or '}'",
             entries |-> <<>>]
       ELSE IF At(s, colon) # ":" \/ At(s, v) # "\""
       THEN NotModelled(s)
       ELSE Valued(YamlQuoted(line, v))

YamlFlowPairs(s, j, entries) ==
    LET line == SubSeq(s, 1, MinOf({k \in j..(Len(s) + 1) :
                                       At(s, k) \in YamlBreaks \cup {""}}) - 1)
        Keyed(key) ==
            IF key.bad
            THEN [err |-> YamlScannerError(Len(YamlSplit(SubSeq(s, 1, j))),
                              key.text),
                  entries |-> <<>>]
            ELSE YamlFlowAfterKey(s, j, key, entries)
    IN IF At(s, j) # "\"" THEN NotModelled(s)
       ELSE Keyed(YamlQuoted(line, j))

\* the flow mapping whose "{" is at position i of the text
YamlFlow(s, i) ==
    LET first == SkipChars(s, i + 1, {" "} \cup YamlBreaks)
        rest == YamlSplit(SubSeq(s, first + 1, Len(s)))
    IN IF At(s, first) = "}"
       THEN IF YamlRestIsBlank(rest[1], 1)
               /\ \A n \in 2..Len(rest) : YamlSkipped(rest[n])
            THEN [err |-> Nil, entries |-> <<>>]
            ELSE NotModelled(s)
       ELSE YamlFlowPairs(s, first, <<>>)

\* parser.parse: the entries of the mapping the text holds, or the error:
\* [err, entries].  A text of comments and blank lines holds no document.
YamlDocument(data) ==
    LET lines == YamlSplit(data)
        read == {k \in 1..Len(lines) : ~YamlSkipped(lines[k])}
        first == MinOf(read)
        start == IF YamlDocStart(lines[first]) THEN MinOf(read \ {first})
                 ELSE first
        e == YamlEntry(lines[start])
    IN IF \E j \in 1..Len(data) :
             At(data, j) \notin YamlPrintable \cup YamlBreaks
       THEN NotModelled(data)
       ELSE IF read = {} THEN [err |-> Nil, entries |-> <<>>]
       ELSE IF YamlDocStart(lines[first]) /\ read = {first}
       THEN NotModelled(data)
       ELSE IF At(lines[start], 1) = "{"
       THEN IF start = 1 THEN YamlFlow(data, 1) ELSE NotModelled(data)
       ELSE IF e.form = "word" /\ read \ {first} \subseteq {start}
       THEN [err |-> YamlTypeError(start, e.text), entries |-> <<>>]
       ELSE YamlEntries(lines, start, -1, <<>>)

\* decoder.mappingStruct: the entries <<key, null, value>> stored into cfg
\* one after the other; a null is stored as the empty text, an entry whose
\* key is no tag is skipped
RECURSIVE YamlStore(_, _)
YamlStore(entries, cfg) ==
    IF entries = <<>> THEN cfg
    ELSE LET e == Head(entries)
         IN YamlStore(Tail(entries),
                      IF e[1] \in Tags
                      THEN SetField(cfg, e[1], IF e[2] THEN "" ELSE e[3])
                      ELSE cfg)

\* yaml.Unmarshal(data, &cfg): [cfg, err].  Nothing is stored when the text
\* does not parse
YamlUnmarshal(data, cfg) ==
    LET Decoded(document) ==
            IF document.err # Nil THEN [cfg |-> cfg, err |-> document.err]
            ELSE [cfg |-> YamlStore(document.entries, cfg), err |-> Nil]
    IN Decoded(YamlDocument(data))

\* strings.LastIndex(s, sep) for a one-character sep, 0-based, -1 if none
LastIndex(s, sep) ==
    LET P == Occurrences(s, sep, 1)
    IN IF P = {} THEN -1 ELSE (CHOOSE k \in P : \A j \in P : j <= k) - 1

\* a slip: the index is defaulted whether a root is given or not
ApplyDefaultsIndexAlways(cfg) ==
    LET c == IF cfg.Listen = "" THEN [cfg EXCEPT !.Listen = "80"] ELSE cfg
    IN IF c.Index = "" THEN [c EXCEPT !.Index = "index.html"] ELSE c

\* Load, lines 43-48: the defaults of listen and index
ApplyDefaults(cfg) ==
    LET c == IF cfg.Listen = "" THEN [cfg EXCEPT !.Listen = "80"] ELSE cfg
    IN IF c.Index = "" /\ c.Root # ""
       THEN [c EXCEPT !.Index = "index.html"] ELSE c

\* config.Load(filepath) on the file system fs: [cfg, err], cfg the record
\* behind the pointer when err is nil
Load(fs, filepath) ==
    LET ext == ToLower(SubSeq(filepath, LastIndex(filepath, ".") + 2,
                              Len(filepath)))
        Loaded(decoded, failed) ==
            IF decoded.err # Nil
            THEN [cfg |-> ZeroConfig, err |-> failed \o decoded.err]
            ELSE [cfg |-> ApplyDefaults(decoded.cfg), err |-> Nil]
    IN IF filepath \notin DOMAIN fs
       THEN [cfg |-> ZeroConfig,
             err |-> "failed to read config file: " \o ErrNotExist(filepath)]
       ELSE IF ext = "json"
       THEN Loaded(JsonUnmarshal(fs[filepath], ZeroConfig),
                   "failed to parse JSON config: ")
       ELSE IF ext \in {"yaml", "yml"}
       THEN Loaded(YamlUnmarshal(fs[filepath], ZeroConfig),
                   "failed to parse YAML config: ")
       ELSE [cfg |-> ZeroConfig,
             err |-> "unsupported config file format: " \o ext]

(***************************************************************************)
(* config.Load called on its own: files holds the configuration file, ret  *)
(* its path, the members it was written from and what Load returned.        *)
(***************************************************************************)
\* a field the configuration file does not have
Absent == "<absent>"

\* what the file says of listen, root and index: nothing, "" or a value
FieldChoices ==
    [listen : {Absent, "", "8080"},
     root : {Absent, "/srv/www"},
     index : {Absent, "", "home.html"}]

\* the members <<key, value>> of a file written from the choice ch
MembersOf(ch) ==
    SelectSeq(<<<<"listen", ch.listen>>, <<"root", ch.root>>,
                <<"index", ch.index>>>>,
              LAMBDA m : m[2] # Absent)

\* the members as the lines of a JSON object and of a YAML mapping
RECURSIVE JsonLines(_)
JsonLines(members) ==
    IF members = <<>> THEN <<>>
    ELSE <<"  \"" \o Head(members)[1] \o "\": \"" \o Head(members)[2]
           \o "\"">> \o JsonLines(Tail(members))

RECURSIVE YamlLines(_)
YamlLines(members) ==
    IF members = <<>> THEN ""
    ELSE Head(members)[1] \o ": \"" \o Head(members)[2] \o "\"\n"
         \o YamlLines(Tail(members))

ConfigPaths ==
    {"static.json", "conf.d/site.yaml", "SITE.YML", "site.txt", "site"}

\* the text of the file at path: JSON for .json, YAML under a comment line
\* for every other path
ConfigText(path, members) ==
    IF EndsWith(path, ".json")
    THEN "{\n" \o Join(JsonLines(members), ",\n") \o "\n}\n"
    ELSE "# site\n" \o YamlLines(members)

NoLoad(path, members) ==
    [op |-> "none", path |-> path, members |-> members,
     result |-> ZeroConfig, err |-> Nil]

CallLoad ==
    /\ LET r == Load(files, ret.path)
       IN ret' = [ret EXCEPT !.op = "load", !.result = r.cfg, !.err = r.err]
    /\ UNCHANGED <<doc, applied>>
    /\ UNCHANGED fileVars

\* files written by hand: a JSON object with a number in a member of no
\* field and a key in capitals, a YAML mapping with a single-quoted, a
\* plain and a null value under a document start, one with the escape \/,
\* one with the escape \x short of a digit before it, one with \x, \u, \U
\* and a flow mapping with a key and its colon on two lines; YAML files
\* with a key of 1024 characters and with keys whose colon stands further
\* than 1024 characters after their start, as the first key, as a later
\* key and in a flow mapping: [path, text, members]
OtherConfigs ==
    {[path |-> "static.json",
      text |-> "{\"extra\": 1, \"LISTEN\": \"8080\", \"root\": null}",
      members |-> <<<<"listen", "8080">>>>],
     [path |-> "site.yaml",
      text |-> "---\nlisten: '8080'\nroot: /srv/www  # files\nindex: ~\n",
      members |-> <<<<"listen", "8080">>, <<"root", "/srv/www">>>>],
     [path |-> "site.yaml",
      text |-> "root: /srv/www\nlisten: \"80\\/tcp\"\n",
      members |-> <<>>],
     [path |-> "site.yaml",
      text |-> "root: /srv/www\nlisten: \"\\x4\\/\"\n",
      members |-> <<>>],
     [path |-> "site.yaml",
      text |-> "listen: \"\\x38\\u0030\"\nroot: \"\\U0000002Fsrv\"\n",
      members |-> <<<<"listen", "80">>, <<"root", "/srv">>>>],
     [path |-> "site.yaml",
      text |-> "{\"listen\"\n: \"8080\"}\n",
      members |-> <<>>]}
    \cup
    LET Twice(s) == s \o s
        \* a key of 1024 characters
        long == Twice(Twice(Twice(Twice(Twice(
                    "kkkkkkkkkkkkkkkkkkkkkkkkkkkkkkkk")))))
    IN {[path |-> "site.yaml",
         text |-> long \o ": x\nroot: /srv/www\n",
         members |-> <<<<"root", "/srv/www">>>>],
        [path |-> "site.yaml",
         text |-> long \o "k: x\nroot: /srv/www\n",
         members |-> <<>>],
        [path |-> "site.yaml",
         text |-> "root: /srv/www\n" \o long \o " : x\n",
         members |-> <<>>],
        [path |-> "site.yaml",
         text |-> "{\"" \o long \o "\": \"x\", \"listen\": \"8080\"}\n",
         members |-> <<>>]}

\* a file written from some members, a file written by hand, a JSON file cut
\* short, or no file
LoadInit ==
    /\ \/ \E path \in ConfigPaths, ch \in FieldChoices :
            /\ files = [p \in {path} |-> ConfigText(path, MembersOf(ch))]
            /\ ret = NoLoad(path, MembersOf(ch))
       \/ \E c \in OtherConfigs :
            /\ files = [p \in {c.path} |-> c.text]
            /\ ret = NoLoad(c.path, c.members)
       \/ /\ files = [p \in {"static.json"} |-> "{\n  \"listen\": \"80\",\n"]
          /\ ret = NoLoad("static.json", <<>>)
       \/ /\ files = EmptyFS
          /\ ret = NoLoad("static.json", <<>>)
    /\ doc = ""
    /\ applied = <<>>
    /\ now = StartTime
    /\ runs = 0
    /\ last = NoRun
    /\ prompt = NoPrompt

LoadNext == CallLoad

SpecLoad == LoadInit /\ [][LoadNext]_vars

(***************************************************************************)
(* The runs on the file system.                                             *)
(***************************************************************************)
\* the nginxPath every run is given
NginxPath == "/etc/nginx/nginx.conf"

\* fmt.Sprintf("%s.backup.%d", nginxPath, time.Now().Unix())
BackupPath(nginxPath, unix) == nginxPath \o ".backup." \o ToString(unix)

\* the record and the -type a run is started with
Requests ==
    {[cfg |-> StaticConfig, serverType |-> "static"],
     [cfg |-> ProxyConfig, serverType |-> "proxy"],
     [cfg |-> StaticConfig, serverType |-> "nodejs"]}

\* the write of a run that fails, if any, and how it fails: a run ends at
\* its first error
NoFault == [file |-> "none", how |-> "none"]

\* a write fails when the file is opened, in the write before anything is
\* written ("write") or after a part is written ("short"), or when the file
\* is closed
Faults ==
    {NoFault}
    \cup [file : {"backup", "target"}, how : {"open", "write", "short", "close"}]

\* how the write of the file fails under the fault
FailureOf(fault, file) == IF fault.file = file THEN fault.how ELSE "none"

\* what nginx.conf holds when the first run starts
FileDocs ==
    {"user nginx;\n\nevents {\n    worker_connections 1024;\n}\n\n"
         \o "http {\n    include mime.types;\n}\n",
     "http {\n}\n",
     "events {\n    worker_connections 1024;\n}\n"}

\* a slip: a third case in the switch, for which nothing is rendered
ServerTypesWithNodejs == {"static", "proxy", "nodejs"}

\* the cases of the switch on serverType that render a block
ServerTypes == {"static", "proxy"}

\* the switch of AddServerToNginx and showPreview on serverType
RenderBlock(cfg, serverType) ==
    CASE serverType = "static" -> GenerateStaticServerBlock(cfg)
      [] serverType = "proxy" -> GenerateProxyServerBlock(cfg)
      [] OTHER -> ""

\* Generator.AddServerToNginx(cfg, nginxPath, serverType, backup) on the file
\* system fs at time unix: [fs, err]
RunAddServer(fs, unix, cfg, nginxPath, serverType, backup, fault) ==
    LET copied == IF backup
                  THEN copyFile(fs, nginxPath, BackupPath(nginxPath, unix),
                                FailureOf(fault, "backup"))
                  ELSE [fs |-> fs, err |-> Nil]
        fs1 == copied.fs
        spliced == addServerBlock(fs1[nginxPath],
                                  RenderBlock(cfg, serverType))
        written == WriteFile(fs1, nginxPath, spliced.result,
                             FailureOf(fault, "target"))
    IN IF copied.err # Nil
       THEN [fs |-> fs1, err |-> "failed to create backup: " \o copied.err]
       ELSE IF nginxPath \notin DOMAIN fs1
       THEN [fs |-> fs1,
             err |-> "failed to read nginx config: " \o ErrNotExist(nginxPath)]
       ELSE IF serverType \notin ServerTypes
       THEN [fs |-> fs1, err |-> "unsupported server type: " \o serverType]
       ELSE IF spliced.err # Nil
       THEN [fs |-> fs1,
             err |-> "failed to add server block: " \o spliced.err]
       ELSE IF written.err # Nil
       THEN [fs |-> written.fs,
             err |-> "failed to write nginx config: " \o written.err]
       ELSE [fs |-> written.fs, err |-> Nil]

\* one run.  A write can fail only in a run that gets to it, and the runs
\* of a behaviour end with the first write that failed
AddServerToNginx(cfg, serverType, backup, fault) ==
    /\ runs < MaxRuns
    /\ ~WriteFailed(last.err)
    /\ fault.file = "backup" => backup
    /\ fault # NoFault => NginxPath \in DOMAIN files
    /\ fault.file = "target" => serverType \in ServerTypes
    /\ LET r == RunAddServer(files, now, cfg, NginxPath, serverType,
                             backup, fault)
       IN /\ files' = r.fs
          /\ last' = [op |-> "add", cfg |-> cfg, serverType |-> serverType,
                      backup |-> backup, before |-> files, time |-> now,
                      result |-> "", err |-> r.err]
    /\ runs' = runs + 1
    /\ UNCHANGED <<now, prompt>>
    /\ UNCHANGED pureVars

\* a second passes
Tick ==
    /\ now < StartTime + MaxTicks
    /\ now' = now + 1
    /\ UNCHANGED <<files, runs, last, prompt>>
    /\ UNCHANGED pureVars

Init ==
    /\ files \in {EmptyFS} \cup {[p \in {NginxPath} |-> d] : d \in FileDocs}
    /\ now = StartTime
    /\ runs = 0
    /\ last = NoRun
    /\ prompt = NoPrompt
    /\ doc = ""
    /\ applied = <<>>
    /\ ret = NoRet

Next ==
    \/ \E rq \in Requests, backup \in BOOLEAN, fault \in Faults :
            AddServerToNginx(rq.cfg, rq.serverType, backup, fault)
    \/ Tick

Spec == Init /\ [][Next]_vars

(***************************************************************************)
(* The command: main with a loaded record, and showPreview.  A run with     *)
(* -preview takes two steps: it reads the target, prints the preview and    *)
(* waits at the prompt; when the answer is typed it goes on, on the files   *)
(* and at the time of then.  Other runs can come between the two.           *)
(***************************************************************************)
\* bufio.Reader.ReadString('\n'): the text up to and with the first newline,
\* or what is there and io.EOF
ReadString(stdin) ==
    LET nl == Occurrences(stdin, "\n", 1)
    IN IF nl = {} THEN [line |-> stdin, err |-> "EOF"]
       ELSE [line |-> SubSeq(stdin, 1, MinOf(nl)), err |-> Nil]

\* a slip: every answer that starts with y is taken for a yes
ConfirmsByFirstLetter(response) == At(response, 1) = "y"

\* showPreview, line 204: response == "y" || response == "yes"
Confirms(response) == response = "y" \/ response = "yes"

\* showPreview, lines 198-204, with the line read: [proceed, err]
Confirmation(response) ==
    IF response.err # Nil THEN [proceed |-> FALSE, err |-> response.err]
    ELSE [proceed |-> Confirms(ToLower(TrimSpace(response.line))),
          err |-> Nil]

\* Generator.GeneratePreview(nginxPath, serverBlock) on the file system fs:
\* [result, err]
GeneratePreview(fs, nginxPath, serverBlock) ==
    IF nginxPath \notin DOMAIN fs
    THEN [result |-> "",
          err |-> "failed to read nginx config: " \o ErrNotExist(nginxPath)]
    ELSE PreviewOf(fs[nginxPath], serverBlock)

\* what is typed at the prompt of showPreview
Answers ==
    {"y\n", " YES \r\n", "yes", "n\n", "\n", "yess\n", "ok y\n", "",
     NBSP \o "Y" \o VT \o "\n"}

\* the end of a run of the command in this step: its flags and record, what
\* was read from stdin, whether AddServerToNginx was called, the files
\* before the step and the error the run ends with
MainEnds(cfg, serverType, preview, backup, stdin, called, err) ==
    last' = [op |-> "main", cfg |-> cfg, serverType |-> serverType,
             backup |-> backup, preview |-> preview, stdin |-> stdin,
             called |-> called, before |-> files, time |-> now, err |-> err]

\* main, lines 75-77: AddServerToNginx on the files and at the time of this
\* step, and the end of the run
MainAdds(cfg, serverType, preview, backup, stdin, fault) ==
    LET Added(r) ==
            /\ files' = r.fs
            /\ MainEnds(cfg, serverType, preview, backup, stdin, TRUE,
                        IF r.err = Nil THEN Nil
                        ELSE "Error adding server to nginx config: "
                             \o r.err)
    IN Added(RunAddServer(files, now, cfg, NginxPath, serverType, backup,
                          fault))

\* a run without -preview, main, lines 54-77: nothing is read from stdin.  A
\* write can fail only in a run that gets to write
MainWithoutPreview(cfg, serverType, backup, fault) ==
    /\ runs < MaxMainRuns
    /\ ~WriteFailed(last.err)
    /\ fault.file = "backup" => backup
    /\ fault # NoFault =>
          serverType \in {"static", "proxy"} /\ NginxPath \in DOMAIN files
    /\ IF serverType # "static" /\ serverType # "proxy"
       THEN /\ MainEnds(cfg, serverType, FALSE, backup, "", FALSE,
                        "Error: type must be either 'static' or 'proxy'")
            /\ UNCHANGED files
       ELSE MainAdds(cfg, serverType, FALSE, backup, "", fault)
    /\ runs' = runs + 1
    /\ UNCHANGED <<now, prompt>>
    /\ UNCHANGED pureVars

\* a run with -preview up to the prompt, main, lines 54-64, and showPreview,
\* lines 152-197: it ends here when the type is wrong or the preview fails,
\* else the preview is printed and the run waits for the answer
MainToPrompt(cfg, serverType, backup) ==
    /\ runs < MaxMainRuns
    /\ ~WriteFailed(last.err)
    /\ ~prompt.open
    /\ LET Shown(preview) ==
            IF preview.err = Nil
            THEN /\ prompt' = [open |-> TRUE, cfg |-> cfg,
                               serverType |-> serverType, backup |-> backup,
                               preview |-> preview.result]
                 /\ UNCHANGED last
            ELSE /\ MainEnds(cfg, serverType, TRUE, backup, "", FALSE,
                             IF preview.err = ErrPanic THEN ErrPanic
                             ELSE "Error generating preview: "
                                  \o "failed to generate preview: "
                                  \o preview.err)
                 /\ UNCHANGED prompt
       IN IF serverType # "static" /\ serverType # "proxy"
          THEN /\ MainEnds(cfg, serverType, TRUE, backup, "", FALSE,
                           "Error: type must be either 'static' or 'proxy'")
               /\ UNCHANGED prompt
          ELSE Shown(GeneratePreview(files, NginxPath,
                                     RenderBlock(cfg, serverType)))
    /\ runs' = runs + 1
    /\ UNCHANGED <<files, now>>
    /\ UNCHANGED pureVars

\* the run that waits at the prompt goes on with what was typed, showPreview,
\* lines 198-204, and main, lines 65-77: AddServerToNginx reads the files
\* and takes the time of this step, not those of the preview
MainFromPrompt(stdin, fault) ==
    /\ prompt.open
    /\ ~WriteFailed(last.err)
    /\ fault.file = "backup" => prompt.backup
    /\ fault # NoFault =>
          /\ Confirmation(ReadString(stdin)).proceed
          /\ NginxPath \in DOMAIN files
    /\ LET Answered(answer) ==
            IF answer.err # Nil
            THEN /\ MainEnds(prompt.cfg, prompt.serverType, TRUE,
                             prompt.backup, stdin, FALSE,
                             "Error generating preview: " \o answer.err)
                 /\ UNCHANGED files
            ELSE IF ~answer.proceed
            THEN /\ MainEnds(prompt.cfg, prompt.serverType, TRUE,
                             prompt.backup, stdin, FALSE, Nil)
                 /\ UNCHANGED files
            ELSE MainAdds(prompt.cfg, prompt.serverType, TRUE,
                          prompt.backup, stdin, fault)
       IN Answered(Confirmation(ReadString(stdin)))
    /\ prompt' = NoPrompt
    /\ UNCHANGED <<now, runs>>
    /\ UNCHANGED pureVars

\* the writes that fail in a run of the command: one failure of each file
\* stands for those of AddServerToNginx, main treats every error of it alike
MainFaults ==
    {NoFault, [file |-> "backup", how |-> "open"],
     [file |-> "target", how |-> "short"]}

MainNext ==
    \/ \E rq \in Requests, backup \in BOOLEAN, fault \in MainFaults :
            MainWithoutPreview(rq.cfg, rq.serverType, backup, fault)
    \/ \E rq \in Requests, backup \in BOOLEAN :
            MainToPrompt(rq.cfg, rq.serverType, backup)
    \/ \E stdin \in Answers, fault \in MainFaults : MainFromPrompt(stdin, fault)

SpecMain == Init /\ [][MainNext]_vars

(***************************************************************************)
(* What the claims speak of, stated without the code's own steps.           *)
(***************************************************************************)
\* D has a substring: http, optional whitespace, "{", any characters, "}"
HasHttpSection(D) ==
    \E i \in {h \in 1..Len(D) : At(D, h) = "h"} :
        /\ Slice(D, i, i + 3) = "http"
        /\ \E j \in (i + 4)..Len(D) :
              /\ At(D, j) = "{"
              /\ \A w \in (i + 4)..(j - 1) : At(D, w) \in RegexSpace
              /\ \E k \in (j + 1)..Len(D) : At(D, k) = "}"

\* the text of D before its first match, the opening token, the body and
\* the text after the match
BeforeSection(D) == SubSeq(D, 1, HttpRegexFind(D, 1)[1] - 1)

OpeningToken(D) == Groups(D, HttpRegexFind(D, 1))[2]

SectionBody(D) == Groups(D, HttpRegexFind(D, 1))[3]

AfterSection(D) == SubSeq(D, HttpRegexFind(D, 1)[3] + 1, Len(D))

\* the splice as the specification describes it
SpliceExpected(D, B) ==
    BeforeSection(D) \o OpeningToken(D)
    \o TrimRight(SectionBody(D), UnicodeSpace)
    \o "\n\n" \o B \o "\n" \o "}" \o AfterSection(D)

\* C1: for every document with an http section and every block, the splice
\* returns the text before the match, the opening token, the right-trimmed
\* body, two newlines, the block, a newline, "}" and the text after the match.
C1_SpliceExact ==
    (ret.op = "add" /\ HasHttpSection(ret.in))
        => ret.result = SpliceExpected(ret.in, ret.block)

\* C3: the splice only adds: the result is the original up to the end of the
\* right-trimmed body, then new text, then the original from the section's
\* closing brace on.
C3_OnlyAdds ==
    (ret.op = "add" /\ ret.err = Nil) =>
        LET head == BeforeSection(ret.in) \o OpeningToken(ret.in)
                    \o TrimRight(SectionBody(ret.in), UnicodeSpace)
            tail == "}" \o AfterSection(ret.in)
        IN /\ Len(ret.result) >= Len(head) + Len(tail)
           /\ StartsWith(ret.result, head)
           /\ EndsWith(ret.result, tail)

\* C4: addServerBlock returns an error and the empty string exactly when the
\* document holds no http section, and a nil error whenever it holds one.
C4_ErrorIffNoSection ==
    ret.op = "add" =>
        /\ (ret.err # Nil /\ ret.result = "") <=> ~HasHttpSection(ret.in)
        /\ HasHttpSection(ret.in) => ret.err = Nil

\* a call that failed on a document holding "http", "{" and "}"
C4_Witness ==
    /\ ret.op = "add"
    /\ ret.err = ErrNoHttp
    /\ ret.result = ""
    /\ Contains(ret.in, "http") /\ Contains(ret.in, "{")
    /\ Contains(ret.in, "}")

\* C6: round trip: matching the result of the splice again captures the
\* right-trimmed old body, two newlines, the block and a newline.
C6_RoundTrip ==
    (ret.op = "add" /\ ret.err = Nil) =>
        /\ HasHttpSection(ret.result)
        /\ SectionBody(ret.result) =
              TrimRight(SectionBody(ret.in), UnicodeSpace)
              \o "\n\n" \o ret.block \o "\n"

\* C7: after two splices, first of B1 and then of B2, both blocks are in the
\* document as complete, contiguous texts.
C7_BothBlocksIntact ==
    Len(applied) = 2 =>
        Contains(doc, applied[1]) /\ Contains(doc, applied[2])

\* C8: GeneratePreview fails exactly when addServerBlock fails on the same
\* text, and its index expressions never go out of range.
C8_PreviewFailsAsSplice ==
    ret.op = "preview" =>
        /\ ret.err # ErrPanic
        /\ (ret.err # Nil) <=> (addServerBlock(ret.in, ret.block).err # Nil)

\* a preview of a document with a single "}": index 1 is the last piece
C8_Witness ==
    /\ ret.op = "preview"
    /\ ret.err = Nil
    /\ Len(Split(ret.in, "}")) = 2
    /\ AfterSection(ret.in) # ""

\* the lines of a text, surrounding whitespace aside
LineCount(text) ==
    Cardinality({k \in 1..Len(TrimSpace(text)) :
                    At(TrimSpace(text), k) = "\n"}) + 1

\* the text from the start of the n-th line of t on (n >= 2)
FromLine(t, n) ==
    LET breaks == SortedSeq({k \in 1..Len(t) : At(t, k) = "\n"})
    IN SubSeq(t, breaks[n - 1] + 1, Len(t))

\* the text up to the end of the n-th line of t, its line break left out
UpToLine(t, n) ==
    LET breaks == SortedSeq({k \in 1..Len(t) : At(t, k) = "\n"})
    IN SubSeq(t, 1, breaks[n] - 1)

\* what the preview is to show for the text after the section
AfterShown(rest) ==
    IF LineCount(rest) > 2
    THEN {"\n" \o UpToLine(TrimSpace(rest), 2) \o "\n..."}
    ELSE IF TrimSpace(rest) = "" THEN {rest, ""} ELSE {rest}

\* C9: the preview ends with the section's closing brace and the text that
\* follows the section in the document: its first 2 lines and "..." when it
\* has more than 2 lines, else that text as it is.
C9_AfterText ==
    (ret.op = "preview" /\ ret.err = Nil) =>
        \E shown \in AfterShown(AfterSection(ret.in)) :
            EndsWith(ret.result,
                     "    # === END NEW BLOCK ===\n" \o "}" \o shown)

\* what the preview is to show for the text before the section
BeforeShown(pre) ==
    IF LineCount(pre) > 3
    THEN "...\n" \o FromLine(TrimSpace(pre), LineCount(pre) - 1) \o "\n"
    ELSE pre

\* C10: the preview starts with the text before the match (lines counted
\* with surrounding whitespace aside): "..." and its last 2 lines when it
\* has more than 3 lines, else that text as it is; the opening token follows.
C10_BeforeText ==
    (ret.op = "preview" /\ ret.err = Nil) =>
        StartsWith(ret.result,
                   BeforeShown(BeforeSection(ret.in))
                   \o OpeningToken(ret.in) \o "\n")

\* a preview of a document with more than 3 lines before its section
C10_Witness ==
    /\ ret.op = "preview"
    /\ ret.err = Nil
    /\ LineCount(BeforeSection(ret.in)) > 3
    /\ StartsWith(ret.result, "...\n")

\* C2: after a successful run with type static or proxy the target file
\* holds, character for character, the block rendered for the run's record.
C2_FileHoldsRenderedBlock ==
    (last.op = "add" /\ last.err = Nil) =>
        Contains(files[NginxPath], RenderBlock(last.cfg, last.serverType))

\* C5: a run on a document without http section returns an error and leaves
\* every file as it was: none is created and none is modified.
C5_NoSectionNothingWritten ==
    (/\ last.op = "add"
     /\ NginxPath \in DOMAIN last.before
     /\ ~HasHttpSection(last.before[NginxPath]))
        => (last.err # Nil /\ files = last.before)

\* the position of the "}" that closes the "{" at position j of D, braces
\* balanced: the first "}" with as many "{" as "}" between j and it; 0 when
\* there is none
MatchingClose(D, j) ==
    LET opens == {k \in (j + 1)..Len(D) : At(D, k) = "{"}
        closes == {k \in (j + 1)..Len(D) : At(D, k) = "}"}
        matching == {k \in closes :
                        Cardinality({o \in opens : o < k})
                          = Cardinality({c \in closes : c < k})}
    IN IF matching = {} THEN 0 ELSE MinOf(matching)

\* the "}" that closes the http section of D, braces balanced
SectionClose(D) == MatchingClose(D, HttpRegexFind(D, 1)[2])

\* the content of the http section of D, from its "{" to the "}" closing it
WholeBody(D) == SubSeq(D, HttpRegexFind(D, 1)[2] + 1, SectionClose(D) - 1)

\* D has an http section and server blocks nowhere but in it
ServersInSection(D) ==
    /\ HasHttpSection(D)
    /\ SectionClose(D) > 0
    /\ ServerCount(WholeBody(D)) >= 1
    /\ ServerCount(D) = ServerCount(WholeBody(D))

NewBlockMarker == "    # === NEW SERVER BLOCK ===\n"

EndBlockMarker == "    # === END NEW BLOCK ===\n"

\* the preview with the new block and its two markers taken out
AroundNewBlock(preview) ==
    LET ends == Split(preview, EndBlockMarker)
    IN Split(preview, NewBlockMarker)[1] \o ends[Len(ends)]

\* C11: the preview of a document whose http section holds N >= 1 server
\* blocks has the summary line with that N, and shows none of the existing
\* server blocks: outside the new block it has no "server {".
C11_SummaryCountsServers ==
    (ret.op = "preview" /\ ServersInSection(ret.in)) =>
        /\ ret.err = Nil
        /\ Contains(ret.result,
                    "    # ... (" \o ToString(ServerCount(WholeBody(ret.in)))
                    \o " existing server block(s)) ...\n")
        /\ ServerCount(AroundNewBlock(ret.result)) = 0

\* the text the preview has between the two markers of the new block
BetweenMarkers(preview) ==
    Split(Split(preview, NewBlockMarker)[2], EndBlockMarker)[1]

\* C12: the preview shows what will be written: the text between its two
\* markers is the full block (and the newline that ends it), and the splice
\* of the same block into the same document places exactly that text.
C12_PreviewShowsWhatIsWritten ==
    (ret.op = "preview" /\ ret.err = Nil) =>
        /\ BetweenMarkers(ret.result) = ret.block \o "\n"
        /\ Contains(addServerBlock(ret.in, ret.block).result,
                    BetweenMarkers(ret.result))

\* the backup file of the last run
LastBackupPath == BackupPath(NginxPath, last.time)

\* the last run changed the target file
TargetWritten ==
    /\ NginxPath \in DOMAIN files
    /\ NginxPath \in DOMAIN last.before
    /\ files[NginxPath] # last.before[NginxPath]

\* the backup file of the last run holds what the target held before the run
BackupHoldsOriginal ==
    /\ LastBackupPath \in DOMAIN files
    /\ NginxPath \in DOMAIN last.before
    /\ files[LastBackupPath] = last.before[NginxPath]

\* the last run left the target file as it was
TargetUntouched ==
    /\ NginxPath \in DOMAIN files <=> NginxPath \in DOMAIN last.before
    /\ NginxPath \in DOMAIN files
          => files[NginxPath] = last.before[NginxPath]

\* C13: in a run with backup, the backup file <path>.backup.<unix time> is
\* written before the target: it is there, holding the target's content of
\* before the run, whenever the target was written and also when the write
\* of the target failed; and a run whose backup fails returns an error and
\* leaves the target as it was.
C13_BackupBeforeWrite ==
    (last.op = "add" /\ last.backup) =>
        /\ TargetWritten => BackupHoldsOriginal
        /\ StartsWith(last.err, "failed to write nginx config: ")
              => BackupHoldsOriginal
        /\ StartsWith(last.err, "failed to create backup: ")
              => TargetUntouched

\* a run with backup that wrote the target and left the backup file
C13_Witness ==
    /\ last.op = "add"
    /\ last.backup
    /\ last.err = Nil
    /\ TargetWritten
    /\ BackupHoldsOriginal

ErrUnsupported(serverType) == "unsupported server type: " \o serverType

\* C14 as stated: a run with a server type other than static and proxy
\* returns the unsupported-server-type error and leaves the target as it was.
C14_UnsupportedTypeError ==
    (last.op = "add" /\ last.serverType \notin {"static", "proxy"}) =>
        /\ last.err = ErrUnsupported(last.serverType)
        /\ TargetUntouched

\* C14 amended: such a run leaves the target as it was and never gets to the
\* splice or the write; it returns the unsupported-server-type error once
\* the backup, if requested, is made and the target is read, and the error
\* of the backup or of the read otherwise.
C14_UnsupportedTypeAfterRead ==
    (last.op = "add" /\ last.serverType \notin {"static", "proxy"}) =>
        /\ TargetUntouched
        /\ ~StartsWith(last.err, "failed to add server block: ")
        /\ ~StartsWith(last.err, "failed to write nginx config: ")
        /\ IF StartsWith(last.err, "failed to create backup: ")
           THEN last.backup
           ELSE IF NginxPath \notin DOMAIN last.before
           THEN StartsWith(last.err, "failed to read nginx config: ")
           ELSE last.err = ErrUnsupported(last.serverType)

\* a run of an unsupported type on a readable target without http section:
\* the type error, not that of the splice, and the backup made
C14_Witness ==
    /\ last.op = "add"
    /\ last.serverType = "nodejs"
    /\ last.backup
    /\ NginxPath \in DOMAIN last.before
    /\ ~HasHttpSection(last.before[NginxPath])
    /\ last.err = ErrUnsupported("nodejs")
    /\ BackupHoldsOriginal

\* the lines of the proxy block that name the target t
TargetLines(block, t) ==
    /\ Contains(block, "        # Proxy all requests to " \o t \o "\n")
    /\ Contains(block, "            proxy_pass " \o t \o ";\n")

\* C15 as stated: the proxy target is proxyPass when that is non-empty and
\* http://127.0.0.1:<proxyPort> otherwise, for every proxyPort, the empty one
\* too; the comment line and the proxy_pass line both name it.
C15_ProxyTargetAnyPort ==
    ret.op = "proxy" =>
        TargetLines(ret.result,
                    IF ret.cfg.ProxyPass # "" THEN ret.cfg.ProxyPass
                    ELSE "http://127.0.0.1:" \o ret.cfg.ProxyPort)

\* C15 amended: the proxy target is proxyPass when that is non-empty,
\* http://127.0.0.1:<proxyPort> when only proxyPort is non-empty, and empty
\* when both are empty; the comment line and the proxy_pass line both name it.
C15_ProxyTarget ==
    ret.op = "proxy" =>
        TargetLines(ret.result,
                    IF ret.cfg.ProxyPass # "" THEN ret.cfg.ProxyPass
                    ELSE IF ret.cfg.ProxyPort # ""
                    THEN "http://127.0.0.1:" \o ret.cfg.ProxyPort
                    ELSE "")

\* a proxy block rendered from a record with a port and a URL, the URL named
C15_Witness ==
    /\ ret.op = "proxy"
    /\ ret.cfg.ProxyPass = "https://up.io"
    /\ ret.cfg.ProxyPort = "8084"
    /\ Contains(ret.result, "            proxy_pass https://up.io;\n")

\* the answer typed in the last run, as the claim reads it: upper and lower
\* case alike, the whitespace around it and the line end left out
AnswerGiven == ToLower(TrimSpace(last.stdin))

\* C16: a run with preview calls AddServerToNginx only when the answer is y
\* or yes; on every other answer the run ends with every file as it was,
\* the target unmodified and no backup file made.
C16_ProceedsOnlyOnYes ==
    (last.op = "main" /\ last.preview) =>
        /\ last.called => AnswerGiven \in {"y", "yes"}
        /\ AnswerGiven \notin {"y", "yes"}
              => (~last.called /\ files = last.before)

\* a run with preview that went on after an answer in capitals with blanks
\* around it, wrote the target and made the backup
C16_Witness ==
    /\ last.op = "main"
    /\ last.preview
    /\ last.stdin = " YES \r\n"
    /\ last.called
    /\ last.err = Nil
    /\ TargetWritten
    /\ BackupHoldsOriginal

\* what the file of the last Load says of the field with the tag: the value
\* of its member, or "" when it has none
InFile(tag) ==
    LET at == {i \in 1..Len(ret.members) : ret.members[i][1] = tag}
    IN IF at = {} THEN "" ELSE ret.members[CHOOSE i \in at : TRUE][2]

\* C17: a record returned by a successful Load has a non-empty listen, "80"
\* when the file's was empty; its index is "index.html" when the file's was
\* empty and root is not; every other value, and an empty index with an
\* empty root, is as in the file.
C17_LoadDefaults ==
    (ret.op = "load" /\ ret.err = Nil) =>
        /\ ret.result.Listen # ""
        /\ ret.result.Listen =
              IF InFile("listen") = "" THEN "80" ELSE InFile("listen")
        /\ ret.result.Index =
              IF InFile("index") = "" /\ InFile("root") # ""
              THEN "index.html" ELSE InFile("index")
        /\ ret.result.Root = InFile("root")
        /\ ret.result.ServerName = InFile("server_name")
        /\ ret.result.ProxyPass = InFile("proxy_pass")
        /\ ret.result.ProxyPort = InFile("proxy_port")

\* a YAML file with a root, an empty listen and no index, loaded with both
\* defaults
C17_Witness ==
    /\ ret.op = "load"
    /\ ret.err = Nil
    /\ ret.path = "SITE.YML"
    /\ InFile("root") = "/srv/www"
    /\ <<"listen", "">> \in {ret.members[i] : i \in 1..Len(ret.members)}
    /\ ret.result.Listen = "80"
    /\ ret.result.Index = "index.html"

\* C18: the splice rewrites the first matched region and, besides it, only
\* text that is identical to the matched text: when the text after the first
\* region holds no copy of it, that text is in the result as it was, a later
\* region with another body included.
C18_LaterRegionKept ==
    (/\ ret.op = "add"
     /\ ret.err = Nil
     /\ ~Contains(AfterSection(ret.in), Groups(ret.in,
                                               HttpRegexFind(ret.in, 1))[1]))
        => EndsWith(ret.result, AfterSection(ret.in))

\* the "{" of the first http opening token of D that has a "}" after it, and
\* the first "}" after that "{", found without the matcher
FirstOpenBrace(D) ==
    LET starts ==
            {i \in {h \in 1..Len(D) : At(D, h) = "h"} :
                /\ Slice(D, i, i + 3) = "http"
                /\ \E j \in (i + 4)..Len(D) :
                      /\ At(D, j) = "{"
                      /\ \A w \in (i + 4)..(j - 1) : At(D, w) \in RegexSpace
                      /\ \E k \in (j + 1)..Len(D) : At(D, k) = "}"}
    IN MinOf({j \in (MinOf(starts) + 4)..Len(D) : At(D, j) = "{"})

FirstCloseBrace(D) ==
    MinOf({k \in (FirstOpenBrace(D) + 1)..Len(D) : At(D, k) = "}"})

\* the "}" that closes the http section of D, braces balanced, or 0
OwnCloseBrace(D) == MatchingClose(D, FirstOpenBrace(D))

\* the text between the first "{" and the first "}" after it
TruncatedBody(D) == SubSeq(D, FirstOpenBrace(D) + 1, FirstCloseBrace(D) - 1)

\* the http section of D holds a nested block: the first "}" after its "{"
\* is not the one that closes it
NestedSection(D) ==
    /\ HasHttpSection(D)
    /\ OwnCloseBrace(D) > FirstCloseBrace(D)

\* neither the document nor the block holds a "$"
NoDollar(D, B) == ~Contains(D, "$") /\ ~Contains(B, "$")

\* C19: no brace balancing.  For a document whose http section holds a nested
\* block, the splice puts the new block right before the first "}" after the
\* opening token, the nested block's, so that the section's own "}" comes
\* after it; and the preview counts the server blocks of the text up to that
\* first "}" only.
C19_FirstCloseEndsBody ==
    (ret.err = Nil /\ NestedSection(ret.in)) =>
        /\ (ret.op = "add" /\ NoDollar(ret.in, ret.block)) =>
              StartsWith(ret.result,
                  SubSeq(ret.in, 1, FirstOpenBrace(ret.in))
                  \o TrimRight(TruncatedBody(ret.in), {" ", "\t", "\n"})
                  \o "\n\n" \o ret.block \o "\n"
                  \o SubSeq(ret.in, FirstCloseBrace(ret.in),
                            OwnCloseBrace(ret.in)))
        /\ ret.op = "preview" =>
              IF ServerCount(TruncatedBody(ret.in)) > 0
              THEN Contains(ret.result,
                       "    # ... ("
                       \o ToString(ServerCount(TruncatedBody(ret.in)))
                       \o " existing server block(s)) ...\n")
              ELSE ~Contains(ret.result, "existing server block(s)")

\* a splice into a section with two server blocks: the new block is inside
\* the first of them
C19_Witness ==
    /\ ret.op = "add"
    /\ ret.err = Nil
    /\ NestedSection(ret.in)
    /\ NoDollar(ret.in, ret.block)
    /\ ServerCount(SubSeq(ret.in, 1, OwnCloseBrace(ret.in))) = 2
    /\ ServerCount(TruncatedBody(ret.in)) = 1
    /\ Contains(ret.result, ret.block \o "\n}\n  server {")

\* C20: the body is right-trimmed of all whitespace: in the result the new
\* body starts with the old one without its trailing spaces, tabs, newlines
\* and carriage returns, and the character before the two separating
\* newlines is none of these.
C20_NoSpaceBeforeSeparator ==
    (ret.op = "add" /\ ret.err = Nil /\ NoDollar(ret.in, ret.block)) =>
        LET head == SubSeq(ret.in, 1, FirstOpenBrace(ret.in))
                    \o TrimRight(TruncatedBody(ret.in),
                                 {" ", "\t", "\n", "\r"})
        IN /\ At(head, Len(head)) \notin {" ", "\t", "\n", "\r"}
           /\ StartsWith(ret.result, head \o "\n\n" \o ret.block)

\* C21: a successful run with backup leaves its own backup file, holding the
\* target's content of before the run, and overwrites no backup file of an
\* earlier run: every file other than the target is after the run as it was
\* before, so the content of before the first run stays in a backup file,
\* also when two runs start within the same second.
C21_EarlierBackupsKept ==
    (last.op = "add" /\ last.backup /\ last.err = Nil) =>
        /\ BackupHoldsOriginal
        /\ \A p \in DOMAIN last.before \ {NginxPath} :
              p \in DOMAIN files /\ files[p] = last.before[p]

\* the places of D where "http", optional whitespace and "{" stand
HttpOpenings(D) ==
    {i \in 1..Len(D) :
        /\ Slice(D, i, i + 3) = "http"
        /\ \E j \in (i + 4)..Len(D) :
              /\ At(D, j) = "{"
              /\ \A w \in (i + 4)..(j - 1) : At(D, w) \in RegexSpace}

\* D has such places, and at each of them "http" is the tail of a longer
\* word: the character before it is a letter, a digit or "_"
HttpOnlyAsWordTail(D) ==
    /\ HttpOpenings(D) # {}
    /\ \A i \in HttpOpenings(D) :
          i > 1 /\ At(D, i - 1) \in Letters \cup Digits \cup {"_"}

\* C22: on a document where "http" followed by "{" stands only as the tail of
\* a longer word, addServerBlock and GeneratePreview both report that there is
\* no http section and return no text, and the document stays as it was.
C22_HttpIsWholeWord ==
    (ret.op \in {"add", "preview"} /\ HttpOnlyAsWordTail(ret.in)) =>
        /\ ret.err = ErrNoHttp
        /\ ret.result = ""
        /\ doc = ret.in


=============================================================================
